---- MODULE Spec2Model ----
(***************************************************************************)
(* A state-machine model of the LLM orchestration substrate:               *)
(*   - BudgetEnforcer   (src/src/budget/enforcer.py)                       *)
(*   - RedisCostTracker (src/src/cost/redis_tracker.py)                    *)
(*   - ProviderRouter   (src/src/providers/router.py)                      *)
(* Every action is one atomic segment of a coroutine: the code between two *)
(* suspension points (awaits that really suspend), or one Redis command.   *)
(* Money is counted in whole cost units.                                   *)
(***************************************************************************)
EXTENDS Integers, Sequences, FiniteSets, Bags, TLC

VARIABLES
    \* ---- Redis keys budget:<u>:<p> and budget:<u>:<p>:limit, one (user, period)
    spend,        \* value stored under the spend key (0 when absent)
    limit,        \* value stored under the limit key (0 when absent)
    spend_ttl,    \* TRUE iff the spend key carries a TTL
    limit_ttl,    \* TRUE iff the limit key carries a TTL
    \* ---- deduct_budget callers
    dpc,          \* position of each caller inside deduct_budget
    dcost,        \* the cost argument of each caller
    dcurrent,     \* the local `current` read by pipe.get(key)
    dirty,        \* WATCH state: TRUE iff the watched key was written since WATCH
    \* ---- create_budget caller
    cpc,          \* position inside create_budget
    climit,       \* the limit_usd argument
    \* ---- Redis keys cost:* of the cost tracker
    kv,           \* value stored under each cost key (0 when absent)
    kvttl,        \* TTL of each cost key in seconds (0 = no TTL)
    tcall,        \* per track_cost caller: the call made (if any) and its result
    \* ---- ProviderRouter
    providers,         \* registered provider names, in registration order
    circuit_breakers,  \* name -> CircuitBreakerState
    req,               \* per client task: its request, its position and what it did
    streak,            \* name -> completions failed in a row since the last success
    \* ---- StreamManager.stream, one stream
    stream,            \* the locals of the generator, its position and its result
    \* ---- EventBus
    subscribers,       \* agent id -> list of subscriptions (their message_types)
    message_history,   \* the deque of messages, oldest first
    published,         \* every message passed to publish, in order (id = position)
    pub,               \* per publishing task: its position inside publish
    ready,             \* delivery tasks created and not yet started, in creation order
    running,           \* delivery tasks whose callback has started and not finished
    calls,             \* the callback invocations made for the publishes in progress, a bag
    \* ---- CostAlertManager, one (user, period name)
    alert_flags,       \* threshold -> remaining TTL of its alert key (0 = absent)
    period_no,         \* how many spend periods of the user have begun
    period_left,       \* remaining TTL of the user's cost key (0 = no period running)
    chk,               \* per check_and_alert caller: its arguments and position
    alerts,            \* the alert callback invocations of the latest period, a bag
    \* ---- ToolRegistry, one registered tool
    now,               \* time.time(), in ticks
    last_execution,    \* _last_execution[name]
    execution_counts,  \* _execution_counts[name]
    texec,             \* per execute caller: its position and its last result
    successes,         \* the executions that returned success: caller, start, finish
    \* ---- GracefulShutdownManager
    hooks,             \* the registered hooks: name -> ShutdownHook
    is_shutting_down,  \* self.is_shutting_down
    shutdown_event,    \* self._shutdown_event is set
    sd,                \* per shutdown() call: its position and the phase it executes
    hook_task,         \* per hook: the state of its task and of its callback
    phase_timeouts,    \* the phases whose wait_for has timed out
    sclock,            \* the event loop's clock, in ticks
    \* ---- WorkflowVersionManager, one (workflow_id, version)
    vfile,             \* the workflow data in the version's file ("none" = no file)
    vmeta,             \* the metadata under the version's Redis key
    vactive,           \* TRUE iff the active key of the workflow names the version
    first_checksum,    \* the checksum stored when the version was first created
    vm,                \* per caller: the operation it is in, its locals and its result
    \* ---- ABTestingManager, one running experiment
    assignments,       \* the variant id under each user's assignment key ("none" = no key)
    given,             \* per user: the variants that sticky calls have returned so far
    abt,               \* per task: its assign_variant call, locals and last result
    \* ---- AgentCoordinator.wait_for_result
    wnow,              \* time.time(), in polling intervals
    wt,                \* the wait_for_result call: its position, locals and result
    \* ---- BaseAgent, one agent
    state_status,      \* state.status of the agent
    ah,                \* per handler task of the agent: its position and tool calls
    \* ---- ProviderRouter._check_health, called on its own
    probe_age,         \* per provider: the time since its last probe ended, saturated
    hc,                \* per caller of _check_health: its position, provider and result
    \* ---- a caller of EventBus.get_history
    hq,                \* the last get_history call: its arguments, the history, the list returned
    \* ---- ABTestingManager, the metrics of one variant
    metrics,           \* the ExperimentMetrics stored under the variant's metrics key
    mrec,              \* per caller: the record_* call it is in and the metrics it loaded
    recorded,          \* the record_* calls made so far
    mread,             \* the metrics the last get_metrics call returned
    log_batch,         \* LLMOpsLogger._batch: how many entries wait for a flush
    log_lock,          \* LLMOpsLogger._lock: the call that holds it, or "none"
    log_rows,          \* the rows inserted into llm_invocations
    log_calls,         \* the logger calls made so far
    lg,                \* each logger call: its position, the batch a flush copied, whether its frame holds the lock
    agents,            \* AgentCoordinator.agents: each agent's recorded status and whether it registered a callback
    unfinished,        \* each agent's assignments that have no TaskResult or Error yet
    assigned,          \* the assign_task calls made so far
    asg,               \* each assign_task call: its position and its agent
    statuses,          \* the status in the Redis metadata of each version of one workflow, "none" when absent
    active_key,        \* workflow:<id>:active: the version the pointer names, 0 when unset
    vlast              \* the last versioning call of the sequence and its outcome

budgetVars == <<spend, limit, spend_ttl, limit_ttl, dpc, dcost, dcurrent, dirty, cpc, climit>>

costVars == <<kv, kvttl, tcall>>

routerVars == <<providers, circuit_breakers, req, streak>>

streamVars == <<stream>>

busVars == <<subscribers, message_history, published, pub, ready, running, calls>>

alertVars == <<alert_flags, period_no, period_left, chk, alerts>>

toolVars == <<now, last_execution, execution_counts, texec, successes>>

shutdownVars == <<hooks, is_shutting_down, shutdown_event, sd, hook_task, phase_timeouts, sclock>>

versionVars == <<vfile, vmeta, vactive, first_checksum, vm>>

abVars == <<assignments, given, abt>>

waitVars == <<wnow, wt>>

agentVars == <<state_status, ah>>

healthVars == <<probe_age, hc>>

queryVars == <<hq>>

metricsVars == <<metrics, mrec, recorded, mread>>

loggerVars == <<log_batch, log_lock, log_rows, log_calls, lg>>

coordVars == <<agents, unfinished, assigned, asg>>

lineageVars == <<statuses, active_key, vlast>>

vars == <<budgetVars, costVars, routerVars, streamVars, busVars, alertVars, toolVars,
          shutdownVars,
          versionVars,
          abVars,
          waitVars,
          agentVars,
          healthVars,
          queryVars,
          metricsVars,
          loggerVars,
          coordVars,
          lineageVars>>

nonBudgetVars == <<costVars, routerVars, streamVars, busVars, alertVars, toolVars,
    shutdownVars, versionVars, abVars, waitVars, agentVars, healthVars, queryVars,
    metricsVars, loggerVars, coordVars, lineageVars>>
nonCostVars == <<budgetVars, routerVars, streamVars, busVars, alertVars, toolVars,
    shutdownVars, versionVars, abVars, waitVars, agentVars, healthVars, queryVars,
    metricsVars, loggerVars, coordVars, lineageVars>>
nonRouterVars == <<budgetVars, costVars, streamVars, busVars, alertVars, toolVars,
    shutdownVars, versionVars, abVars, waitVars, agentVars, healthVars, queryVars,
    metricsVars, loggerVars, coordVars, lineageVars>>
nonStreamVars == <<budgetVars, costVars, routerVars, busVars, alertVars, toolVars,
    shutdownVars, versionVars, abVars, waitVars, agentVars, healthVars, queryVars,
    metricsVars, loggerVars, coordVars, lineageVars>>
nonBusVars == <<budgetVars, costVars, routerVars, streamVars, alertVars, toolVars,
    shutdownVars, versionVars, abVars, waitVars, agentVars, healthVars, queryVars,
    metricsVars, loggerVars, coordVars, lineageVars>>
nonAlertVars == <<budgetVars, costVars, routerVars, streamVars, busVars, toolVars,
    shutdownVars, versionVars, abVars, waitVars, agentVars, healthVars, queryVars,
    metricsVars, loggerVars, coordVars, lineageVars>>
nonShutdownVars == <<budgetVars, costVars, routerVars, streamVars, busVars, alertVars,
    toolVars, versionVars, abVars, waitVars, agentVars, healthVars, queryVars,
    metricsVars, loggerVars, coordVars, lineageVars>>
nonToolVars == <<budgetVars, costVars, routerVars, streamVars, busVars, alertVars,
    shutdownVars, versionVars, abVars, waitVars, agentVars, healthVars, queryVars,
    metricsVars, loggerVars, coordVars, lineageVars>>
nonVersionVars == <<budgetVars, costVars, routerVars, streamVars, busVars, alertVars,
    toolVars, shutdownVars, abVars, waitVars, agentVars, healthVars, queryVars,
    metricsVars, loggerVars, coordVars, lineageVars>>
nonAbVars == <<budgetVars, costVars, routerVars, streamVars, busVars, alertVars,
    toolVars, shutdownVars, versionVars, waitVars, agentVars, healthVars, queryVars,
    metricsVars, loggerVars, coordVars, lineageVars>>
nonWaitVars == <<budgetVars, costVars, routerVars, streamVars, busVars, alertVars,
    toolVars, shutdownVars, versionVars, abVars, agentVars, healthVars, queryVars,
    metricsVars, loggerVars, coordVars, lineageVars>>
nonAgentVars == <<budgetVars, costVars, routerVars, streamVars, busVars, alertVars,
    toolVars, shutdownVars, versionVars, abVars, waitVars, healthVars, queryVars,
    metricsVars, loggerVars, coordVars, lineageVars>>
nonHealthVars == <<budgetVars, costVars, routerVars, streamVars, busVars, alertVars,
    toolVars, shutdownVars, versionVars, abVars, waitVars, agentVars, queryVars,
    metricsVars, loggerVars, coordVars, lineageVars>>
nonQueryVars == <<budgetVars, costVars, routerVars, streamVars, busVars, alertVars,
    toolVars, shutdownVars, versionVars, abVars, waitVars, agentVars, healthVars,
    metricsVars, loggerVars, coordVars, lineageVars>>
nonMetricsVars == <<budgetVars, costVars, routerVars, streamVars, busVars, alertVars,
    toolVars, shutdownVars, versionVars, abVars, waitVars, agentVars, healthVars,
    queryVars, loggerVars, coordVars, lineageVars>>
nonLoggerVars == <<budgetVars, costVars, routerVars, streamVars, busVars, alertVars,
    toolVars, shutdownVars, versionVars, abVars, waitVars, agentVars, healthVars,
    queryVars, metricsVars, coordVars, lineageVars>>
nonCoordVars == <<budgetVars, costVars, routerVars, streamVars, busVars, alertVars,
    toolVars, shutdownVars, versionVars, abVars, waitVars, agentVars, healthVars,
    queryVars, metricsVars, loggerVars, lineageVars>>
nonLineageVars == <<budgetVars, costVars, routerVars, streamVars, busVars, alertVars,
    toolVars, shutdownVars, versionVars, abVars, waitVars, agentVars, healthVars,
    queryVars, metricsVars, loggerVars, coordVars>>
exceptRouterHealthVars == <<budgetVars, costVars, streamVars, busVars, alertVars,
    toolVars, shutdownVars, versionVars, abVars, waitVars, agentVars, queryVars,
    metricsVars, loggerVars, coordVars, lineageVars>>

-----------------------------------------------------------------------------
(* Bounds of the model.                                                    *)
NumDeduct == 3      \* concurrent deduct_budget calls
MaxCost   == 2      \* costs range over 1..MaxCost
MaxLimit  == 3      \* limits range over 1..MaxLimit

NumTrack  == 2      \* concurrent track_cost calls
NumClients == 2     \* concurrent router clients
MaxChunks == 1      \* chunks one provider's stream yields at most
Threshold == 2      \* ProviderConfig.circuit_breaker_threshold, N
CoolOff   == 2      \* ProviderConfig.circuit_breaker_timeout, T, in time units
HealthInterval == 2 \* ProviderConfig.health_check_interval, in time units
MaxDriverChunks == 4 \* chunks the driver of a stream yields at most
MinLength == 2      \* QualityEvaluator.min_length, in characters (50 in the code)
CheckInterval == 2  \* QualityEvaluator.check_interval, in chunks (20 in the code)
MaxHistory == 1     \* EventBus max_history, C
MaxPublishes == 2   \* publish calls, K
MaxSubs == 1        \* subscriptions one agent holds at most
AlertTtl == 2       \* the TTL of a period, in ticks (86,400 s for daily)
MaxPeriods == 2     \* spend periods of one user that begin
MinInterval == 2    \* 60 / Tool.rate_limit, in ticks
ToolTimeout == 2    \* Tool.timeout, in ticks
MaxTime == 4        \* ticks of the registry's clock
MaxHookTimeout == 2 \* the largest ShutdownHook.timeout, in ticks
MaxShutdownTime == 4 \* ticks of the event loop's clock during shutdown
MaxTools == 2        \* use_tool calls of one process_task
MaxCount == 2        \* the largest count passed to get_history
MaxRecords == 3      \* record_impression, record_success and record_failure calls
BatchSize == 2       \* batch_size of the LLMOpsLogger (default 100)
MaxLogCalls == 4     \* logger calls made
MaxAssign == 2       \* assign_task calls made
NumVersions == 2     \* versions of the workflow
MaxTimeout == 2      \* the longest timeout of wait_for_result, in polling intervals
MaxWaitTime == 3     \* the clock of the coordinator stops here

Deductors == 1..NumDeduct
Trackers  == 1..NumTrack
Costs     == 1..MaxCost
Limits    == 1..MaxLimit

-----------------------------------------------------------------------------
(* BudgetEnforcer                                                          *)

\* A write to the spend key marks every client that is watching it.
Touch(writer) == [d \in Deductors |-> IF d = writer THEN dirty[d] ELSE TRUE]

\* Mutant of Exceeds: the comparison is off by one (>= for >).
Exceeds_OffByOne(current, cost, lim) == lim > 0 /\ (current + cost) >= lim

\* enforcer.py:62  the hard-limit test of deduct_budget
Exceeds(current, cost, lim) == lim > 0 /\ (current + cost) > lim

\* Mutant of deduct_watch: the WATCH does not start afresh.
deduct_watch_Stale(d) ==
    /\ dpc[d] = "watch"
    /\ dpc' = [dpc EXCEPT ![d] = "get"]
    /\ UNCHANGED <<spend, limit, spend_ttl, limit_ttl, dcost, dcurrent, dirty, cpc, climit, nonBudgetVars>>

\* enforcer.py:58  await pipe.watch(key)
deduct_watch(d) ==
    /\ dpc[d] = "watch"
    /\ dpc' = [dpc EXCEPT ![d] = "get"]
    /\ dirty' = [dirty EXCEPT ![d] = FALSE]
    /\ UNCHANGED <<spend, limit, spend_ttl, limit_ttl, dcost, dcurrent, cpc, climit, nonBudgetVars>>

\* enforcer.py:59  current = float(await pipe.get(key) or 0)
deduct_get(d) ==
    /\ dpc[d] = "get"
    /\ dcurrent' = [dcurrent EXCEPT ![d] = spend]
    /\ dpc' = [dpc EXCEPT ![d] = "getlimit"]
    /\ UNCHANGED <<spend, limit, spend_ttl, limit_ttl, dcost, dirty, cpc, climit, nonBudgetVars>>

\* enforcer.py:60-65  limit = float(await pipe.get(limit_key) or 0); the test;
\* BudgetExceededError leaves the pipeline context, which unwatches.
deduct_getlimit(d) ==
    /\ dpc[d] = "getlimit"
    /\ dpc' = [dpc EXCEPT ![d] =
                 IF Exceeds(dcurrent[d], dcost[d], limit) THEN "exceeded" ELSE "exec"]
    /\ UNCHANGED <<spend, limit, spend_ttl, limit_ttl, dcost, dcurrent, dirty, cpc, climit, nonBudgetVars>>

\* Mutant of ExecCommits: EXEC ignores the WATCH state.
ExecCommits_NoWatch(isDirty) == TRUE

\* The outcome of EXEC for a client whose WATCH state is `isDirty`:
\* TRUE = the transaction is applied, FALSE = WatchError.
ExecCommits(isDirty) == ~isDirty

\* enforcer.py:67-72  MULTI; INCRBYFLOAT key cost; EXEC -- or WatchError and retry
deduct_exec(d) ==
    /\ dpc[d] = "exec"
    /\ IF ExecCommits(dirty[d])
       THEN /\ spend' = spend + dcost[d]
            /\ dirty' = Touch(d)
            /\ dpc' = [dpc EXCEPT ![d] = "done"]
       ELSE /\ dpc' = [dpc EXCEPT ![d] = "watch"]
            /\ UNCHANGED <<spend, dirty>>
    /\ UNCHANGED <<limit, spend_ttl, limit_ttl, dcost, dcurrent, cpc, climit, nonBudgetVars>>

deduct_budget(d) ==
    \/ deduct_watch(d)
    \/ deduct_get(d)
    \/ deduct_getlimit(d)
    \/ deduct_exec(d)

\* enforcer.py:24-25  limit_usd <= 0 raises ValueError before any write
create_reject ==
    /\ cpc = "idle"
    /\ \E l \in {0} : l <= 0
    /\ UNCHANGED vars

\* enforcer.py:24-30  accepted call; await self.redis.set(key, 0).  The
\* period is looked up in the ttl table only after both SETs (line 34):
\* the call remembers whether it is one of daily, weekly, monthly.
create_set_key ==
    /\ cpc = "idle"
    /\ \E l \in Limits :
         /\ ~(l <= 0)
         /\ climit' = l
    /\ spend' = 0
    /\ spend_ttl' = FALSE
    /\ dirty' = Touch(0)
    /\ \E known \in BOOLEAN :
         cpc' = IF known THEN "set_limit" ELSE "set_limit_unknown_period"
    /\ UNCHANGED <<limit, limit_ttl, dpc, dcost, dcurrent, nonBudgetVars>>

\* enforcer.py:31-34  await self.redis.set(limit_key, limit_usd); the ttl
\* lookup raises KeyError for a period outside the table and the call ends
create_set_limit ==
    /\ cpc \in {"set_limit", "set_limit_unknown_period"}
    /\ limit' = climit
    /\ limit_ttl' = FALSE
    /\ cpc' = IF cpc = "set_limit" THEN "expire_key" ELSE "idle"
    /\ UNCHANGED <<spend, spend_ttl, dpc, dcost, dcurrent, dirty, climit, nonBudgetVars>>

\* enforcer.py:34-35  await self.redis.expire(key, ttl)
create_expire_key ==
    /\ cpc = "expire_key"
    /\ spend_ttl' = TRUE
    /\ dirty' = Touch(0)
    /\ cpc' = "expire_limit"
    /\ UNCHANGED <<spend, limit, limit_ttl, dpc, dcost, dcurrent, climit, nonBudgetVars>>

\* enforcer.py:36  await self.redis.expire(limit_key, ttl)
create_expire_limit ==
    /\ cpc = "expire_limit"
    /\ limit_ttl' = TRUE
    /\ cpc' = "idle"
    /\ UNCHANGED <<spend, limit, spend_ttl, dpc, dcost, dcurrent, dirty, climit, nonBudgetVars>>

create_budget ==
    \/ create_reject
    \/ create_set_key
    \/ create_set_limit
    \/ create_expire_key
    \/ create_expire_limit

-----------------------------------------------------------------------------
(* RedisCostTracker                                                        *)

UserIds      == {"alice", "total"}
PeriodInputs == {"daily", "hourly"}
TierInputs   == {0, 4, 5}
CostInputs   == {-1, 1, 2}

\* redis_tracker.py:71-73  the three keys of one call
UserKey(period, user_id) == "cost:" \o period \o ":" \o user_id
TierKey(period, tier)    == "cost:" \o period \o ":tier:" \o ToString(tier)
GlobalKey(period)        == "cost:" \o period \o ":total"

CostKeys ==
    {UserKey(p, u) : p \in PeriodInputs, u \in UserIds}
      \cup {TierKey(p, t) : p \in PeriodInputs, t \in TierInputs}
      \cup {GlobalKey(p) : p \in PeriodInputs}

\* redis_tracker.py:233-250  _get_ttl; 0 stands for the ValueError
DailyTtl == 86400
PeriodTtl(period) == IF period = "daily" THEN DailyTtl ELSE 0

\* redis_tracker.py:65-68  the argument validation of track_cost
TrackValid(tier, cost) == (0 <= tier /\ tier <= 4) /\ ~(cost < 0)

\* INCRBYFLOAT key amount
IncrByFloat(store, key, amount) == [store EXCEPT ![key] = @ + amount]

\* EXPIRE key ttl NX: sets the TTL only when the key has none
ExpireNx(ttls, key, ttl) == [ttls EXCEPT ![key] = IF @ = 0 THEN ttl ELSE @]

\* redis_tracker.py:76-95  the MULTI/EXEC transaction of one call, applied to
\* the store in command order
TrackedStore(store, period, user_id, tier, cost) ==
    LET s1 == IncrByFloat(store, UserKey(period, user_id), cost)
        s2 == IncrByFloat(s1, TierKey(period, tier), cost)
    IN  IncrByFloat(s2, GlobalKey(period), cost)

TrackedTtl(ttls, period, user_id, tier) ==
    LET t1 == ExpireNx(ttls, UserKey(period, user_id), PeriodTtl(period))
        t2 == ExpireNx(t1, TierKey(period, tier), PeriodTtl(period))
    IN  ExpireNx(t2, GlobalKey(period), PeriodTtl(period))

\* A caller that has not called yet.
NoCall == [made |-> FALSE, user |-> "", tier |-> 0, cost |-> 0, period |-> "",
           ok |-> FALSE, ret |-> 0]

\* redis_tracker.py:43-95  track_cost: rejected by validation (or by _get_ttl,
\* before anything is sent), or one transaction
track_cost(c) ==
    /\ ~tcall[c].made
    /\ \E u \in UserIds, t \in TierInputs, k \in CostInputs, p \in PeriodInputs :
         IF TrackValid(t, k) /\ PeriodTtl(p) # 0
         THEN /\ kv' = TrackedStore(kv, p, u, t, k)
              /\ kvttl' = TrackedTtl(kvttl, p, u, t)
              /\ tcall' = [tcall EXCEPT ![c] =
                             [made |-> TRUE, user |-> u, tier |-> t, cost |-> k, period |-> p,
                              ok |-> TRUE,
                              ret |-> IncrByFloat(kv, UserKey(p, u), k)[UserKey(p, u)]]]
         ELSE /\ tcall' = [tcall EXCEPT ![c] =
                             [made |-> TRUE, user |-> u, tier |-> t, cost |-> k, period |-> p,
                              ok |-> FALSE, ret |-> 0]]
              /\ UNCHANGED <<kv, kvttl>>
    /\ UNCHANGED nonCostVars

\* api/budget.py:283-285  the per-user key of the spend query and of the
\* reset, and the value the query reports for it: GET, or 0 for no key
SpendKey(period, user_id) == "cost:" \o period \o ":user:" \o user_id
get_user_spend(store, user_id, period) ==
    IF SpendKey(period, user_id) \in DOMAIN store THEN store[SpendKey(period, user_id)]
    ELSE 0

\* No cost has been tracked and no call has been made.
CostInit ==
    /\ kv = [k \in CostKeys |-> 0]
    /\ kvttl = [k \in CostKeys |-> 0]
    /\ tcall = [c \in Trackers |-> NoCall]

CostNext == \E c \in Trackers : track_cost(c)

-----------------------------------------------------------------------------
\* The callers: every deductor is about to call deduct_budget with some cost.
DeductorsInit ==
    /\ dpc = [d \in Deductors |-> "watch"]
    /\ dcost \in [Deductors -> Costs]
    /\ dcurrent = [d \in Deductors |-> 0]
    /\ dirty = [d \in Deductors |-> FALSE]
    /\ cpc = "idle"
    /\ climit = 0

\* A budget with limit L > 0 has been created and nothing has been spent.
BudgetInit ==
    /\ spend = 0
    /\ limit \in Limits
    /\ spend_ttl = TRUE
    /\ limit_ttl = TRUE
    /\ DeductorsInit

\* The empty store: no budget has been created yet.
BudgetEmptyInit ==
    /\ spend = 0
    /\ limit = 0
    /\ spend_ttl = FALSE
    /\ limit_ttl = FALSE
    /\ DeductorsInit

BudgetNext == \E d \in Deductors : deduct_budget(d)

BudgetCreateNext ==
    \/ \E d \in Deductors : deduct_budget(d)
    \/ create_budget

\* The budget keys of a deployment in which nobody uses the enforcer.
BudgetIdle ==
    /\ spend = 0
    /\ limit = 0
    /\ spend_ttl = FALSE
    /\ limit_ttl = FALSE
    /\ dpc = [d \in Deductors |-> "watch"]
    /\ dcost = [d \in Deductors |-> 1]
    /\ dcurrent = [d \in Deductors |-> 0]
    /\ dirty = [d \in Deductors |-> FALSE]
    /\ cpc = "idle"
    /\ climit = 0

-----------------------------------------------------------------------------
(* ProviderRouter                                                          *)
(* Time is kept as ages: fail_age = time.time() - last_failure_time and    *)
(* health_age = time.time() - last_health_check, each saturated at the     *)
(* value from which the code's comparisons no longer tell it apart.        *)

\* router.py:24-30  class Tier(IntEnum)
LOCAL_FREE  == 0
CLOUD_CHEAP == 1
VISION      == 2
PREMIUM     == 3
BATCH       == 4
Tiers == {LOCAL_FREE, CLOUD_CHEAP, VISION, PREMIUM, BATCH}

\* router.py:33-43  ProviderConfig of the providers a deployment may register
ProviderNames == {"ollama", "jan", "llava", "anthropic"}
Config ==
    [n \in ProviderNames |->
        CASE n = "ollama"    -> [tier |-> LOCAL_FREE, priority |-> 0, models |-> {"m"},
                                 privacy_compatible |-> TRUE]
          [] n = "jan"       -> [tier |-> LOCAL_FREE, priority |-> 1, models |-> {"m"},
                                 privacy_compatible |-> FALSE]
          [] n = "llava"     -> [tier |-> VISION, priority |-> 0, models |-> {"m"},
                                 privacy_compatible |-> TRUE]
          [] n = "anthropic" -> [tier |-> PREMIUM, priority |-> 0, models |-> {"m"},
                                 privacy_compatible |-> FALSE]]

\* router.py:46-53  CircuitBreakerState() of a freshly registered provider:
\* last_failure_time = 0 and last_health_check = 0 lie far in the past
NewBreaker ==
    [failure_count |-> 0, fail_age |-> CoolOff, is_open |-> FALSE,
     health_age |-> HealthInterval, is_healthy |-> TRUE]

\* A client task that is not inside a request.
IdleReq ==
    [pc |-> "idle", kind |-> "chat", tier |-> LOCAL_FREE, failover |-> FALSE,
     privacy |-> FALSE, tiers_to_try |-> <<>>, visited |-> <<>>, cands |-> <<>>,
     cur |-> "", invoked |-> <<>>, probed |-> {}, skipped |-> {}, seen |-> {},
     hook |-> <<>>, delivered |-> <<>>,
     served |-> "", outcome |-> "none"]

SeqToSet(q) == {q[i] : i \in 1..Len(q)}
Count(x, q) == Cardinality({i \in 1..Len(q) : q[i] = x})

\* router.py:151-153  an open breaker whose cool-off has not elapsed
Blocked(b) == b.is_open /\ ~(b.fail_age >= CoolOff)

\* Mutant of Matches: the privacy filter is left out.
Matches_NoPrivacy(name, tier, model, privacy_mode) ==
    /\ Config[name].tier = tier
    /\ model \in Config[name].models

\* router.py:136-147  the tier, model and privacy filters of _get_candidates
Matches(name, tier, model, privacy_mode) ==
    /\ Config[name].tier = tier
    /\ model \in Config[name].models
    /\ ~(privacy_mode /\ ~Config[name].privacy_compatible)

\* router.py:149-159  _get_candidates closes an open breaker whose cool-off
\* has elapsed
BreakersAfterSelect(cb, tier, model, privacy_mode) ==
    [n \in DOMAIN cb |->
        IF Matches(n, tier, model, privacy_mode) /\ cb[n].is_open /\ ~Blocked(cb[n])
        THEN [cb[n] EXCEPT !.is_open = FALSE, !.failure_count = 0]
        ELSE cb[n]]

\* router.py:163-165  candidates.sort(key=priority): stable insertion of a
\* name into a list sorted by priority
RECURSIVE InsertByPriority(_, _)
InsertByPriority(name, sorted) ==
    IF sorted = <<>> THEN <<name>>
    ELSE IF Config[name].priority < Config[Head(sorted)].priority
         THEN <<name>> \o sorted
         ELSE <<Head(sorted)>> \o InsertByPriority(name, Tail(sorted))

RECURSIVE SortByPriority(_)
SortByPriority(names) ==
    IF names = <<>> THEN <<>>
    ELSE InsertByPriority(names[Len(names)], SortByPriority(SubSeq(names, 1, Len(names) - 1)))

\* router.py:117-165  the list _get_candidates returns
Candidates(regs, cb, tier, model, privacy_mode) ==
    SortByPriority(SelectSeq(regs,
        LAMBDA n : Matches(n, tier, model, privacy_mode) /\ ~Blocked(cb[n])))

\* Mutant of TiersToTry: PREMIUM is appended without the membership test.
TiersToTry_NoDedup(tier, enable_failover) ==
    LET base == <<tier>>
        step == IF enable_failover /\ tier < PREMIUM THEN base \o <<tier + 1>> ELSE base
    IN  IF enable_failover THEN step \o <<PREMIUM>> ELSE step

\* Mutant of TiersToTry: the chain stops after the next tier.
TiersToTry_NoPremium(tier, enable_failover) ==
    LET base == <<tier>>
    IN  IF enable_failover /\ tier < PREMIUM THEN base \o <<tier + 1>> ELSE base

\* router.py:268-276  tiers_to_try
TiersToTry(tier, enable_failover) ==
    LET base == <<tier>>
        step == IF enable_failover /\ tier < PREMIUM THEN base \o <<tier + 1>> ELSE base
    IN  IF enable_failover /\ PREMIUM \notin SeqToSet(step) THEN step \o <<PREMIUM>> ELSE step

\* router.py:181  the cached health result is still fresh
HealthFresh(b) == b.health_age < HealthInterval

\* Mutant of RecordFailure: the breaker opens only above the threshold.
RecordFailure_Late(b) ==
    LET n == b.failure_count + 1
    IN  [b EXCEPT !.failure_count = n, !.fail_age = 0,
                  !.is_open = IF n > Threshold THEN TRUE ELSE @]

\* router.py:220-228  _record_failure
RecordFailure(b) ==
    LET n == b.failure_count + 1
    IN  [b EXCEPT !.failure_count = n, !.fail_age = 0,
                  !.is_open = IF n >= Threshold THEN TRUE ELSE @]

\* router.py:237-239  _record_success
RecordSuccess(b) == [b EXCEPT !.failure_count = 0]

\* router.py:72-81  a failover hook is configured
OnFailoverSet == TRUE

\* router.py:280-323 and 351-376  the code a request runs without suspending:
\* from its present point to the next await that suspends (a health probe or
\* a completion) or to its end. `st` is [q: the request, cb: the breakers].
RECURSIVE Advance(_, _)
Advance(st, regs) ==
    LET q == st.q
        cb == st.cb
    IN  IF q.cands # <<>>
        THEN LET name == Head(q.cands)
                 q1 == [q EXCEPT !.cands = Tail(q.cands), !.cur = name]
             IN  IF HealthFresh(cb[name])
                 THEN IF cb[name].is_healthy
                      THEN [q |-> [q1 EXCEPT !.pc = IF q.kind = "chat" THEN "call" ELSE "stream",
                                             !.invoked = Append(@, name)],
                            cb |-> cb]
                      ELSE Advance([q |-> [q1 EXCEPT !.skipped = @ \cup {name}], cb |-> cb], regs)
                 ELSE [q |-> [q1 EXCEPT !.pc = "probe", !.probed = @ \cup {name}], cb |-> cb]
        ELSE IF q.kind = "chat" /\ Len(q.visited) < Len(q.tiers_to_try)
        THEN LET t == q.tiers_to_try[Len(q.visited) + 1]
                 found == Candidates(regs, cb, t, "m", q.privacy)
             IN  Advance([q |-> [q EXCEPT !.visited = Append(@, t), !.cands = found,
                                          !.seen = @ \cup SeqToSet(found)],
                          cb |-> BreakersAfterSelect(cb, t, "m", q.privacy)], regs)
        ELSE [q |-> [q EXCEPT !.pc = "done", !.cur = "", !.outcome = "failed"], cb |-> cb]

\* What a request has recorded when it starts.
NewReq(kind, tier, failover, privacy_mode) ==
    [IdleReq EXCEPT !.kind = kind, !.tier = tier, !.failover = failover,
                    !.privacy = privacy_mode]

\* router.py:241-293  chat_completion is called and runs to its first await
chat_start(r, tier, failover, privacy_mode) ==
    /\ req[r].pc = "idle"
    /\ LET q0 == [NewReq("chat", tier, failover, privacy_mode)
                    EXCEPT !.tiers_to_try = TiersToTry(tier, failover)]
           st == Advance([q |-> q0, cb |-> circuit_breakers], providers)
       IN  /\ req' = [req EXCEPT ![r] = st.q]
           /\ circuit_breakers' = st.cb
    /\ UNCHANGED <<providers, streak, nonRouterVars>>

\* router.py:325-356  stream_completion is called and runs to its first await
stream_start(r, tier, privacy_mode) ==
    /\ req[r].pc = "idle"
    /\ LET found == Candidates(providers, circuit_breakers, tier, "m", privacy_mode)
           cb1 == BreakersAfterSelect(circuit_breakers, tier, "m", privacy_mode)
           q0 == [NewReq("stream", tier, FALSE, privacy_mode)
                    EXCEPT !.tiers_to_try = <<tier>>, !.visited = <<tier>>,
                           !.cands = found, !.seen = SeqToSet(found)]
           st == IF found = <<>>
                 THEN [q |-> [q0 EXCEPT !.pc = "done", !.outcome = "no_providers"], cb |-> cb1]
                 ELSE Advance([q |-> q0, cb |-> cb1], providers)
       IN  /\ req' = [req EXCEPT ![r] = st.q]
           /\ circuit_breakers' = st.cb
    /\ UNCHANGED <<providers, streak, nonRouterVars>>

\* router.py:185-207 and 291-299  the health probe of the current candidate
\* returns: a verdict, or a timeout/exception
probe_return(r) ==
    /\ req[r].pc = "probe"
    /\ \E result \in {"healthy", "unhealthy", "error"} :
         LET name == req[r].cur
             b == circuit_breakers[name]
             b1 == IF result = "error"
                   THEN [b EXCEPT !.is_healthy = FALSE]
                   ELSE [b EXCEPT !.is_healthy = (result = "healthy"), !.health_age = 0]
             cb1 == [circuit_breakers EXCEPT ![name] = b1]
             st == IF result = "healthy"
                   THEN [q |-> [req[r] EXCEPT !.pc = IF req[r].kind = "chat" THEN "call"
                                                    ELSE "stream",
                                              !.invoked = Append(@, name)],
                         cb |-> cb1]
                   ELSE Advance([q |-> [req[r] EXCEPT !.skipped = @ \cup {name}], cb |-> cb1],
                                providers)
         IN  /\ req' = [req EXCEPT ![r] = st.q]
             /\ circuit_breakers' = st.cb
    /\ UNCHANGED <<providers, streak, nonRouterVars>>

\* Mutant of HookFires: the hook fires on every success.
HookFires_Always(tier, current_tier) == OnFailoverSet

\* router.py:308-310  the failover hook is called; the hook is an observer
\* that returns to the router
HookFires(tier, current_tier) == current_tier # tier /\ OnFailoverSet

\* router.py:305-312 and 367-369  the provider's completion succeeded
Succeed(r) ==
    LET name == req[r].cur
        current_tier == Config[name].tier
    IN  /\ circuit_breakers' = [circuit_breakers EXCEPT ![name] = RecordSuccess(@)]
        /\ streak' = [streak EXCEPT ![name] = 0]
        /\ req' = [req EXCEPT ![r] =
                     [@ EXCEPT !.pc = "done", !.outcome = "ok", !.served = name,
                               !.hook = IF req[r].kind = "chat"
                                           /\ HookFires(req[r].tier, current_tier)
                                        THEN Append(@, <<req[r].tier, current_tier>>)
                                        ELSE @]]

\* router.py:314-318 and 371-374  the provider's completion failed: the
\* failure is recorded and the request goes on to the next candidate
Fail(r) ==
    LET name == req[r].cur
        cb1 == [circuit_breakers EXCEPT ![name] = RecordFailure(@)]
        st == Advance([q |-> req[r], cb |-> cb1], providers)
    IN  /\ circuit_breakers' = st.cb
        /\ streak' = [streak EXCEPT ![name] = IF @ < Threshold THEN @ + 1 ELSE @]
        /\ req' = [req EXCEPT ![r] = st.q]

\* router.py:299-318  the awaited provider.chat_completion returns or raises
chat_return(r) ==
    /\ req[r].pc = "call"
    /\ (Succeed(r) \/ Fail(r))
    /\ UNCHANGED <<providers, nonRouterVars>>

\* router.py:360-365  the provider's stream yields a chunk, passed on to the caller
stream_chunk(r) ==
    /\ req[r].pc = "stream"
    /\ Count(req[r].cur, req[r].delivered) < MaxChunks
    /\ req' = [req EXCEPT ![r].delivered = Append(@, req[r].cur)]
    /\ UNCHANGED <<providers, circuit_breakers, streak, nonRouterVars>>

\* router.py:360-374  the provider's stream ends or raises
stream_return(r) ==
    /\ req[r].pc = "stream"
    /\ (Succeed(r) \/ Fail(r))
    /\ UNCHANGED <<providers, nonRouterVars>>

\* The caller has its response or its exception; the task is free again.
request_end(r) ==
    /\ req[r].pc = "done"
    /\ req' = [req EXCEPT ![r] = IdleReq]
    /\ UNCHANGED <<providers, circuit_breakers, streak, nonRouterVars>>

\* time.time() advances by one unit.
Tick ==
    /\ circuit_breakers' =
         [n \in DOMAIN circuit_breakers |->
            [circuit_breakers[n] EXCEPT
               !.fail_age = IF @ < CoolOff THEN @ + 1 ELSE @,
               !.health_age = IF @ < HealthInterval THEN @ + 1 ELSE @]]
    /\ circuit_breakers' # circuit_breakers
    /\ UNCHANGED <<providers, req, streak, nonRouterVars>>

\* router.py:72-115  the router after __init__ and the register calls of `regs`
RouterInit(regs, clients) ==
    /\ providers = regs
    /\ circuit_breakers = [n \in SeqToSet(regs) |-> NewBreaker]
    /\ streak = [n \in SeqToSet(regs) |-> 0]
    /\ req = [r \in clients |-> IdleReq]

Clients == 1..NumClients

\* One client after the other: requests of every tier, with and without failover.
RouterSeqNext ==
    \/ \E t \in Tiers, f \in BOOLEAN : chat_start(1, t, f, FALSE)
    \/ probe_return(1)
    \/ chat_return(1)
    \/ request_end(1)
    \/ Tick

\* Concurrent clients: chat and stream requests for the local tier.
RouterConcNext ==
    \/ \E r \in Clients : chat_start(r, LOCAL_FREE, FALSE, FALSE)
    \/ \E r \in Clients : stream_start(r, LOCAL_FREE, FALSE)
    \/ \E r \in Clients : probe_return(r)
    \/ \E r \in Clients : chat_return(r)
    \/ \E r \in Clients : stream_chunk(r)
    \/ \E r \in Clients : stream_return(r)
    \/ \E r \in Clients : request_end(r)
    \/ Tick

\* One client: chat and stream requests for the local tier, with and without
\* privacy mode.
RouterLocalNext ==
    \/ \E f \in BOOLEAN, pm \in BOOLEAN : chat_start(1, LOCAL_FREE, f, pm)
    \/ \E pm \in BOOLEAN : stream_start(1, LOCAL_FREE, pm)
    \/ probe_return(1)
    \/ chat_return(1)
    \/ stream_chunk(1)
    \/ stream_return(1)
    \/ request_end(1)
    \/ Tick

\* The router of a deployment in which nobody uses it.
RouterIdle == RouterInit(<<>>, {})

-----------------------------------------------------------------------------
(* StreamManager.stream (stream_manager.py:167-275).  Text is a sequence   *)
(* of characters; a chunk is the text of one driver yield.                 *)

\* The chunks a driver can yield.
ChunkInputs == {<<"E">>, <<"D">>, <<"\n">>, <<"E", "D">>, <<"E", "\n">>}

\* The stop sequence a caller can configure.
StopSeq == <<"E", "D">>

\* stream_manager.py:103-108  completion_markers, one of them ("\n\nDone")
CompletionMarkers == {<<"\n", "\n", "D">>}

RECURSIVE SeqsUpTo(_, _)
SeqsUpTo(S, n) ==
    IF n = 0 THEN {<<>>}
    ELSE LET shorter == SeqsUpTo(S, n - 1)
         IN  shorter \cup {Append(q, x) : q \in shorter, x \in S}

\* The streams a driver can produce.
DriverInputs == SeqsUpTo(ChunkInputs, MaxDriverChunks)

\* Python's `seq in text`
Contains(seq, text) ==
    \E i \in 0..(Len(text) - Len(seq)) : SubSeq(text, i + 1, i + Len(seq)) = seq

\* Python's text.split('\n')
RECURSIVE Split(_, _)
Split(text, line) ==
    IF text = <<>> THEN <<line>>
    ELSE IF Head(text) = "\n" THEN <<line>> \o Split(Tail(text), <<>>)
         ELSE Split(Tail(text), Append(line, Head(text)))

\* stream_manager.py:78-120  QualityEvaluator.should_terminate_early
should_terminate_early(accumulated_text, token_count) ==
    IF Len(accumulated_text) < MinLength THEN FALSE
    ELSE IF token_count % CheckInterval # 0 THEN FALSE
    ELSE IF \E marker \in CompletionMarkers : Contains(marker, accumulated_text) THEN TRUE
    ELSE LET lines == Split(accumulated_text, <<>>)
             n == Len(lines)
         IN  n > 3 /\ lines[n] = lines[n - 1] /\ lines[n - 1] = lines[n - 2]

\* Mutant of Accumulate: the chunk is put in front of the text.
Accumulate_InFront(accumulated_text, content_chunk) == content_chunk \o accumulated_text

\* stream_manager.py:204  accumulated_text += content_chunk
Accumulate(accumulated_text, content_chunk) == accumulated_text \o content_chunk

\* Mutant of StopFound: only the last chunk is searched.
StopFound_LastChunk(stop_sequences, accumulated_text, chunks) ==
    chunks # <<>> /\ \E seq \in stop_sequences : Contains(seq, chunks[Len(chunks)].content)

\* stream_manager.py:218-223  a stop sequence is in the accumulated text
StopFound(stop_sequences, accumulated_text, chunks) ==
    \E seq \in stop_sequences : Contains(seq, accumulated_text)

NoResult == [made |-> FALSE, full_content |-> <<>>, chunks |-> <<>>,
             termination_reason |-> "", total_tokens |-> 0]

\* No stream is running.
IdleStream ==
    [pc |-> "idle", driver |-> <<>>, stop_sequences |-> {}, quality_check |-> FALSE,
     accumulated_text |-> <<>>, chunks |-> <<>>, chunk_index |-> 0,
     emitted |-> <<>>, timed_out |-> FALSE, closed |-> FALSE, result |-> NoResult]

StreamIdle == stream = IdleStream

\* stream_manager.py:262-275  the finally clause stores the result
Finish(st, termination_reason) ==
    [st EXCEPT !.pc = "done",
               !.result = [made |-> TRUE,
                           full_content |-> st.accumulated_text,
                           chunks |-> st.chunks,
                           termination_reason |-> termination_reason,
                           total_tokens |-> st.chunk_index]]

\* stream_manager.py:167-203  the caller starts to iterate stream(...): the
\* generator runs up to the first read of the router's stream
stream_begin ==
    /\ stream.pc = "idle"
    /\ \E driver \in DriverInputs, stops \in {{}, {StopSeq}}, quality \in BOOLEAN :
         stream' = [IdleStream EXCEPT !.pc = "await", !.driver = driver,
                                      !.stop_sequences = stops, !.quality_check = quality]
    /\ UNCHANGED nonStreamVars

\* stream_manager.py:196-216  the router's stream yields its next chunk, which
\* is recorded and yielded to the caller
driver_yield ==
    /\ stream.pc = "await"
    /\ stream.chunk_index < Len(stream.driver)
    /\ LET content_chunk == stream.driver[stream.chunk_index + 1]
           chunk == [content |-> content_chunk, chunk_index |-> stream.chunk_index]
       IN  stream' = [stream EXCEPT
                        !.pc = "yielded",
                        !.accumulated_text = Accumulate(@, content_chunk),
                        !.chunks = Append(@, chunk),
                        !.chunk_index = @ + 1,
                        !.emitted = Append(@, chunk)]
    /\ UNCHANGED nonStreamVars

\* stream_manager.py:196 and 262-275  the router's stream is exhausted
driver_end ==
    /\ stream.pc = "await"
    /\ stream.chunk_index = Len(stream.driver)
    /\ stream' = Finish(stream, "complete")
    /\ UNCHANGED nonStreamVars

\* stream_manager.py:196 and 256-258  the router's stream raises
driver_raise ==
    /\ stream.pc = "await"
    /\ stream' = Finish(stream, "error")
    /\ UNCHANGED nonStreamVars

\* stream_manager.py:196 and 252-254  the caller's task is cancelled while the
\* generator waits for the router's stream
stream_cancel ==
    /\ stream.pc = "await"
    /\ stream' = Finish(stream, "user_cancelled")
    /\ UNCHANGED nonStreamVars

\* stream_manager.py:216-250  the caller asks for the next chunk: the checks
\* that follow the yield
stream_resume ==
    /\ stream.pc = "yielded"
    /\ stream' =
         IF stream.stop_sequences # {}
            /\ StopFound(stream.stop_sequences, stream.accumulated_text, stream.chunks)
         THEN Finish(stream, "early_stop")
         ELSE IF stream.quality_check
                 /\ should_terminate_early(stream.accumulated_text, stream.chunk_index)
         THEN Finish(stream, "quality_threshold")
         ELSE IF stream.timed_out
         THEN Finish(stream, "timeout")
         ELSE [stream EXCEPT !.pc = "await"]
    /\ UNCHANGED nonStreamVars

\* stream_manager.py:216 and 262-275  the caller stops iterating and the
\* generator is closed at its yield: only the finally clause runs
stream_close ==
    /\ stream.pc = "yielded"
    /\ stream' = Finish([stream EXCEPT !.closed = TRUE], "complete")
    /\ UNCHANGED nonStreamVars

\* stream_manager.py:248  time.time() - start_time exceeds the timeout
stream_timer ==
    /\ stream.pc \in {"await", "yielded"}
    /\ ~stream.timed_out
    /\ stream' = [stream EXCEPT !.timed_out = TRUE]
    /\ UNCHANGED nonStreamVars

\* The caller has read the result; the next stream can start.
stream_reset ==
    /\ stream.pc = "done"
    /\ stream' = IdleStream
    /\ UNCHANGED nonStreamVars

StreamNext ==
    \/ stream_begin
    \/ driver_yield
    \/ driver_end
    \/ driver_raise
    \/ stream_cancel
    \/ stream_resume
    \/ stream_close
    \/ stream_timer
    \/ stream_reset

-----------------------------------------------------------------------------
(* EventBus (coordinator.py:62-191).  publish runs without suspension from *)
(* its first line to `await asyncio.gather`; the delivery tasks it creates *)
(* are started by the event loop in the order of their creation.           *)

Agents == {"planner", "coder"}
Publishers == {"p1", "p2"}
MessageTypes == {"task_assignment", "task_result"}
Broadcast == "None"

\* The message_types a subscriber can pass; {} stands for None or an empty list.
FilterInputs == {{}, {"task_assignment"}}

\* The messages a publisher can pass: planner sends to itself, to coder or
\* to everybody.
MessageInputs ==
    [type : MessageTypes, sender : {"planner"}, recipient : Agents \cup {Broadcast}]

\* Mutant of AppendBounded: a full deque refuses the new message.
AppendBounded_KeepOld(history, m) ==
    IF Len(history) < MaxHistory THEN Append(history, m) ELSE history

\* coordinator.py:77 and 121  deque(maxlen=max_history).append
AppendBounded(history, m) ==
    IF Len(history) < MaxHistory THEN Append(history, m)
    ELSE Append(Tail(history), m)

\* coordinator.py:124-129  the recipients of a message, as a set
Recipients(m, subs) ==
    IF m.recipient # Broadcast THEN {m.recipient}
    ELSE {a \in DOMAIN subs : TRUE}

\* Mutant of Admits: the sender is not left out.
Admits_Self(m, recipient_id, subs, i) ==
    /\ recipient_id \in DOMAIN subs
    /\ i \in 1..Len(subs[recipient_id])
    /\ ~(subs[recipient_id][i] # {} /\ m.type \notin subs[recipient_id][i])

\* coordinator.py:134-142  the subscription i of recipient_id gets the message
Admits(m, recipient_id, subs, i) ==
    /\ recipient_id # m.sender
    /\ recipient_id \in DOMAIN subs
    /\ i \in 1..Len(subs[recipient_id])
    /\ ~(subs[recipient_id][i] # {} /\ m.type \notin subs[recipient_id][i])

\* Mutant of TasksOf: every delivery task is created twice.
RECURSIVE TasksOf_Twice(_, _, _, _, _)
TasksOf_Twice(p, m, order, subs, i) ==
    IF order = <<>> THEN <<>>
    ELSE LET r == Head(order)
         IN  IF r \notin DOMAIN subs \/ i > Len(subs[r])
             THEN TasksOf_Twice(p, m, Tail(order), subs, 1)
             ELSE (IF Admits(m, r, subs, i)
                   THEN <<[pub |-> p, agent |-> r, sub |-> i, id |-> m.id],
                          [pub |-> p, agent |-> r, sub |-> i, id |-> m.id]>>
                   ELSE <<>>)
                  \o TasksOf_Twice(p, m, order, subs, i + 1)

\* coordinator.py:131-148  the delivery tasks publish creates, in the order of
\* the loops over the recipients and over their subscriptions
RECURSIVE TasksOf(_, _, _, _, _)
TasksOf(p, m, order, subs, i) ==
    IF order = <<>> THEN <<>>
    ELSE LET r == Head(order)
         IN  IF r \notin DOMAIN subs \/ i > Len(subs[r])
             THEN TasksOf(p, m, Tail(order), subs, 1)
             ELSE (IF Admits(m, r, subs, i)
                   THEN <<[pub |-> p, agent |-> r, sub |-> i, id |-> m.id]>>
                   ELSE <<>>)
                  \o TasksOf(p, m, order, subs, i + 1)

\* An order of a set, as list(dict.keys()) gives one.
RECURSIVE SetToSeq(_)
SetToSeq(S) ==
    IF S = {} THEN <<>>
    ELSE LET x == CHOOSE y \in S : TRUE IN <<x>> \o SetToSeq(S \ {x})

\* Python's messages[-count:]
LastCount(messages, count) ==
    IF count = 0 \/ count >= Len(messages) THEN messages
    ELSE SubSeq(messages, Len(messages) - count + 1, Len(messages))

Reverse(q) == [i \in 1..Len(q) |-> q[Len(q) + 1 - i]]

SelectType(messages, message_type) ==
    SelectSeq(messages, LAMBDA m : message_type = "None" \/ m.type = message_type)

SelectSender(messages, sender) ==
    SelectSeq(messages, LAMBDA m : sender = "None" \/ m.sender = sender)

\* coordinator.py:164-191  get_history
get_history(count, message_type, sender) ==
    Reverse(LastCount(SelectSender(SelectType(message_history, message_type), sender), count))

IdlePub == [pc |-> "idle", id |-> 0, pending |-> 0, subs_at |-> 0, created |-> <<>>]

\* coordinator.py:69-78  EventBus.__init__
BusInit ==
    /\ subscribers = [a \in {} |-> <<>>]
    /\ message_history = <<>>
    /\ published = <<>>
    /\ pub = [p \in Publishers |-> IdlePub]
    /\ ready = <<>>
    /\ running = {}
    /\ calls = EmptyBag

\* coordinator.py:80-103  subscribe
subscribe(agent_id, message_types) ==
    /\ (agent_id \in DOMAIN subscribers => Len(subscribers[agent_id]) < MaxSubs)
    /\ subscribers' =
         [a \in DOMAIN subscribers \cup {agent_id} |->
            IF a = agent_id
            THEN Append(IF a \in DOMAIN subscribers THEN subscribers[a] ELSE <<>>,
                        message_types)
            ELSE subscribers[a]]
    /\ UNCHANGED <<message_history, published, pub, ready, running, calls, nonBusVars>>

\* coordinator.py:105-111  unsubscribe
unsubscribe(agent_id) ==
    /\ agent_id \in DOMAIN subscribers
    /\ subscribers' = [a \in DOMAIN subscribers \ {agent_id} |-> subscribers[a]]
    /\ UNCHANGED <<message_history, published, pub, ready, running, calls, nonBusVars>>

\* coordinator.py:113-152  publish, up to the await of the gather (or to its
\* end when there is nothing to deliver)
publish(p, message) ==
    /\ pub[p].pc = "idle"
    /\ Len(published) < MaxPublishes
    /\ LET m == [id |-> Len(published) + 1, type |-> message.type,
                 sender |-> message.sender, recipient |-> message.recipient]
           tasks == TasksOf(p, m, SetToSeq(Recipients(m, subscribers)), subscribers, 1)
       IN  /\ message_history' = AppendBounded(message_history, m)
           /\ published' = Append(published, m)
           /\ ready' = ready \o tasks
           /\ pub' = [pub EXCEPT ![p] =
                        [pc |-> IF tasks = <<>> THEN "returned" ELSE "gather",
                         id |-> m.id,
                         pending |-> Len(tasks),
                         subs_at |-> IF m.recipient \in DOMAIN subscribers
                                     THEN Len(subscribers[m.recipient]) ELSE 0,
                         created |-> tasks]]
    /\ UNCHANGED <<subscribers, running, calls, nonBusVars>>

\* coordinator.py:154-162  the event loop starts the oldest delivery task:
\* _safe_callback calls the callback, which returns (or raises) at once or
\* suspends
callback_start ==
    /\ ready # <<>>
    /\ LET t == Head(ready)
       IN  /\ ready' = Tail(ready)
           /\ calls' = calls (+) SetToBag({[agent |-> t.agent, sub |-> t.sub, id |-> t.id]})
           /\ \/ /\ running' = running \cup {t}
                 /\ pub' = pub
              \/ /\ running' = running
                 /\ pub' = [pub EXCEPT ![t.pub].pending = @ - 1]
    /\ UNCHANGED <<subscribers, message_history, published, nonBusVars>>

\* coordinator.py:154-162  a suspended callback returns or raises
callback_finish ==
    /\ \E t \in running :
         /\ running' = running \ {t}
         /\ pub' = [pub EXCEPT ![t.pub].pending = @ - 1]
    /\ UNCHANGED <<subscribers, message_history, published, ready, calls, nonBusVars>>

\* coordinator.py:150-152  the gather is complete and publish returns
publish_return(p) ==
    /\ pub[p].pc = "gather"
    /\ pub[p].pending = 0
    /\ pub' = [pub EXCEPT ![p].pc = "returned"]
    /\ UNCHANGED <<subscribers, message_history, published, ready, running, calls, nonBusVars>>

\* The publishing task goes on to its next publish; the invocations made for
\* its message are no longer kept.
publish_done(p) ==
    /\ pub[p].pc = "returned"
    /\ pub' = [pub EXCEPT ![p] = IdlePub]
    /\ calls' = calls (-) [c \in {d \in BagToSet(calls) : d.id = pub[p].id} |-> calls[c]]
    /\ UNCHANGED <<subscribers, message_history, published, ready, running, nonBusVars>>

\* The filters an agent subscribes with: the sender of the messages subscribes
\* to every type.
FiltersOf(a) == IF a = "planner" THEN {{}} ELSE FilterInputs

\* The publishing tasks are interchangeable: the second one publishes only
\* while the first is inside publish.
MayPublish(p) == p = "p1" \/ pub["p1"].pc # "idle"

BusNext ==
    \/ \E a \in Agents : \E f \in FiltersOf(a) : subscribe(a, f)
    \/ \E a \in Agents : unsubscribe(a)
    \/ \E p \in Publishers, m \in MessageInputs : MayPublish(p) /\ publish(p, m)
    \/ callback_start
    \/ callback_finish
    \/ \E p \in Publishers : publish_return(p)
    \/ \E p \in Publishers : publish_done(p)

-----------------------------------------------------------------------------
(* CostAlertManager                                                        *)

\* redis_tracker.py:275  self.thresholds, as the percentages the alert keys
\* carry (int(threshold * 100))
Thresholds == <<80, 90, 95>>

Checkers == {"k1", "k2"}

\* The (current_spend, budget_limit) arguments of the checks: no limit, 50 %,
\* 85 % and 95 % utilization.
CheckInputs == {<<1, 0>>, <<1, 2>>, <<17, 20>>, <<19, 20>>}

\* redis_tracker.py:296-300  utilization = current_spend / budget_limit;
\* utilization >= threshold
Crossed(current_spend, budget_limit, i) ==
    current_spend * 100 >= Thresholds[i] * budget_limit

\* redis_tracker.py:298-300  the thresholds from the i-th on that the loop
\* does not skip
CrossedFrom(current_spend, budget_limit, i) ==
    {j \in i..Len(Thresholds) : Crossed(current_spend, budget_limit, j)}

\* Mutant of WasSet: SET overwrites a flag that is present.
WasSet_Always(flags, i) == TRUE

\* redis_tracker.py:305-310  the reply of SET alert_key "1" NX EX ttl
WasSet(flags, i) == flags[i] = 0

IdleCheck == [pc |-> "idle", current_spend |-> 0, budget_limit |-> 0, i |-> 0]

\* redis_tracker.py:298  the loop goes on with the next threshold crossed, or
\* check_and_alert returns
Continue(c, i) ==
    LET rest == CrossedFrom(c.current_spend, c.budget_limit, i)
    IN  IF rest = {} THEN IdleCheck
        ELSE [c EXCEPT !.pc = "set", !.i = CHOOSE j \in rest : \A l \in rest : j <= l]

\* The period a check falls in: 0 outside every period.
CurrentPeriod == IF period_left > 0 THEN period_no ELSE 0

AlertIdle ==
    /\ alert_flags = [i \in 1..Len(Thresholds) |-> 0]
    /\ period_no = 0
    /\ period_left = 0
    /\ chk = [k \in Checkers |-> IdleCheck]
    /\ alerts = EmptyBag

\* redis_tracker.py:277-310  check_and_alert is called: it returns when there
\* is no limit, else it sends the SET for the first threshold crossed
check_and_alert(k, current_spend, budget_limit) ==
    /\ chk[k].pc = "idle"
    /\ chk' = [chk EXCEPT ![k] =
                 IF budget_limit <= 0 THEN IdleCheck
                 ELSE Continue([IdleCheck EXCEPT !.current_spend = current_spend,
                                                 !.budget_limit = budget_limit], 1)]
    /\ UNCHANGED <<alert_flags, period_no, period_left, alerts, nonAlertVars>>

\* redis_tracker.py:305-314  Redis executes SET NX EX, and the reply decides
\* what the check does when it resumes: it calls the alert callback when the
\* flag was just set, else it goes on. The call is counted for the period in
\* which the flag was set, and not at all outside every period.
redis_set(k) ==
    /\ chk[k].pc = "set"
    /\ IF WasSet(alert_flags, chk[k].i)
       THEN /\ alert_flags' = [alert_flags EXCEPT ![chk[k].i] = AlertTtl]
            /\ alerts' = IF CurrentPeriod = 0 THEN alerts
                         ELSE alerts (+) SetToBag({[threshold |-> Thresholds[chk[k].i],
                                                    period |-> CurrentPeriod]})
            /\ chk' = [chk EXCEPT ![k].pc = "callback"]
       ELSE /\ chk' = [chk EXCEPT ![k] = Continue(chk[k], chk[k].i + 1)]
            /\ UNCHANGED <<alert_flags, alerts>>
    /\ UNCHANGED <<period_no, period_left, nonAlertVars>>

\* redis_tracker.py:314-318  the alert callback returns
alert_callback_return(k) ==
    /\ chk[k].pc = "callback"
    /\ chk' = [chk EXCEPT ![k] = Continue(chk[k], chk[k].i + 1)]
    /\ UNCHANGED <<alert_flags, period_no, period_left, alerts, nonAlertVars>>

\* redis_tracker.py:314  the alert callback raises, which ends check_and_alert
alert_callback_raise(k) ==
    /\ chk[k].pc = "callback"
    /\ chk' = [chk EXCEPT ![k] = IdleCheck]
    /\ UNCHANGED <<alert_flags, period_no, period_left, alerts, nonAlertVars>>

\* redis_tracker.py:76-87  the first track_cost after the cost key has expired
\* creates it with the period's TTL: a period begins, and the invocations of
\* the period before are no longer kept
period_begin ==
    /\ period_left = 0
    /\ period_no < MaxPeriods
    /\ period_no' = period_no + 1
    /\ period_left' = AlertTtl
    /\ alerts' = EmptyBag
    /\ UNCHANGED <<alert_flags, chk, nonAlertVars>>

\* One tick of Redis time: every TTL runs down and a key at 0 is gone.
AlertTick ==
    /\ period_left > 0 \/ \E i \in 1..Len(Thresholds) : alert_flags[i] > 0
    /\ period_left' = IF period_left > 0 THEN period_left - 1 ELSE 0
    /\ alert_flags' = [i \in 1..Len(Thresholds) |->
                         IF alert_flags[i] > 0 THEN alert_flags[i] - 1 ELSE 0]
    /\ UNCHANGED <<period_no, chk, alerts, nonAlertVars>>

\* The callers are interchangeable: the second one calls only while the first
\* is inside check_and_alert.
MayCheck(k) == k = "k1" \/ chk["k1"].pc # "idle"

\* The steps of the checks of the callers in K.
ChecksNext(K) ==
    \/ \E k \in K, a \in CheckInputs : MayCheck(k) /\ check_and_alert(k, a[1], a[2])
    \/ \E k \in K : redis_set(k)
    \/ \E k \in K : alert_callback_return(k)
    \/ \E k \in K : alert_callback_raise(k)

AlertNext ==
    \/ ChecksNext(Checkers)
    \/ period_begin
    \/ AlertTick

-----------------------------------------------------------------------------
(* ToolRegistry                                                            *)

ToolCallers == {"c1", "c2"}

\* registry.py:321  self._last_execution.get(name, 0): no execution yet
Never == -1

\* The last result execute returned to a caller.
ToolResults == {"none", "success", "rate_limit", "missing_parameter", "timeout", "error"}

IdleExec == [pc |-> "idle", result |-> "none", started |-> 0]

\* Mutant of RateLimited: the interval is not checked.
RateLimited_Off(current_time, last_exec) == FALSE

\* registry.py:319-323  current_time - last_exec < 60.0 / tool.rate_limit;
\* without an execution last_exec is 0, the epoch
RateLimited(current_time, last_exec) ==
    last_exec # Never /\ current_time - last_exec < MinInterval

ToolIdle ==
    /\ now = 0
    /\ last_execution = Never
    /\ execution_counts = 0
    /\ texec = [c \in ToolCallers |-> IdleExec]
    /\ successes = {}

\* registry.py:353-362  the handler has returned: the statistics are updated
\* and execute returns success
Success(c, started) ==
    /\ execution_counts' = execution_counts + 1
    /\ last_execution' = now
    /\ successes' = successes \cup {[caller |-> c, started |-> started, finished |-> now]}
    /\ texec' = [texec EXCEPT ![c] = [IdleExec EXCEPT !.result = "success"]]

\* An execute that returns a failure changes nothing in the registry.
Failure(c, error) ==
    /\ texec' = [texec EXCEPT ![c] = [IdleExec EXCEPT !.result = error]]
    /\ UNCHANGED <<last_execution, execution_counts, successes>>

\* registry.py:350  a plain-function handler runs on the event loop: until it
\* returns no other task takes a step
LoopBlocked == \E c \in ToolCallers : texec[c].pc = "blocking"

\* registry.py:288-351  execute is called: the rate limit check, the
\* validation of the parameters, and the call of the handler, awaited under
\* wait_for when it is a coroutine function and called in place when it is a
\* plain function
execute(c, parameters_ok, is_coroutine) ==
    /\ texec[c].pc = "idle"
    /\ ~LoopBlocked
    /\ IF RateLimited(now, last_execution) THEN Failure(c, "rate_limit")
       ELSE IF ~parameters_ok THEN Failure(c, "missing_parameter")
       ELSE /\ texec' = [texec EXCEPT ![c] =
                           [pc |-> IF is_coroutine THEN "handler" ELSE "blocking",
                            result |-> "none", started |-> now]]
            /\ UNCHANGED <<last_execution, execution_counts, successes>>
    /\ UNCHANGED <<now, nonToolVars>>

\* registry.py:345-362  the coroutine handler returns within the timeout
handler_return(c) ==
    /\ texec[c].pc = "handler"
    /\ ~LoopBlocked
    /\ now - texec[c].started <= ToolTimeout
    /\ Success(c, texec[c].started)
    /\ UNCHANGED <<now, nonToolVars>>

\* registry.py:373-380  the coroutine handler raises
handler_raise(c) ==
    /\ texec[c].pc = "handler"
    /\ ~LoopBlocked
    /\ now - texec[c].started <= ToolTimeout
    /\ Failure(c, "error")
    /\ UNCHANGED <<now, nonToolVars>>

\* Mutant of TimedOut: wait_for never cancels the handler.
TimedOut_Never(current_time, started) == FALSE

\* registry.py:345-348  wait_for(handler, timeout=tool.timeout) has run out
TimedOut(current_time, started) == current_time - started >= ToolTimeout

\* registry.py:345-348, 365-371  wait_for cancels the handler at the timeout
handler_timeout(c) ==
    /\ texec[c].pc = "handler"
    /\ ~LoopBlocked
    /\ TimedOut(now, texec[c].started)
    /\ Failure(c, "timeout")
    /\ UNCHANGED <<now, nonToolVars>>

\* registry.py:350-362  the plain-function handler returns, after whatever
\* time it took
sync_return(c) ==
    /\ texec[c].pc = "blocking"
    /\ Success(c, texec[c].started)
    /\ UNCHANGED <<now, nonToolVars>>

\* registry.py:350, 373-380  the plain-function handler raises
sync_raise(c) ==
    /\ texec[c].pc = "blocking"
    /\ Failure(c, "error")
    /\ UNCHANGED <<now, nonToolVars>>

\* Time passes. While the event loop runs, a timeout that is due is served
\* before the next tick; while a plain-function handler runs nothing is.
ToolTick ==
    /\ now < MaxTime
    /\ LoopBlocked \/ \A c \in ToolCallers :
                         texec[c].pc = "handler" => ~TimedOut(now, texec[c].started)
    /\ now' = now + 1
    /\ UNCHANGED <<last_execution, execution_counts, texec, successes, nonToolVars>>

ToolNext ==
    \/ \E c \in ToolCallers, ok \in BOOLEAN, co \in BOOLEAN : execute(c, ok, co)
    \/ \E c \in ToolCallers : handler_return(c)
    \/ \E c \in ToolCallers : handler_raise(c)
    \/ \E c \in ToolCallers : handler_timeout(c)
    \/ \E c \in ToolCallers : sync_return(c)
    \/ \E c \in ToolCallers : sync_raise(c)
    \/ ToolTick

-----------------------------------------------------------------------------
(* GracefulShutdownManager                                                 *)

\* shutdown.py:24-30  ShutdownPhase, in definition order
Phases == <<"stop_accepting", "drain_requests", "stop_background",
            "close_connections", "cleanup">>

HookNames == {"a", "b", "c"}

\* The callers of shutdown(): the tasks the two signal handlers create.
Triggers == {"sigterm", "sigint"}

\* shutdown.py:85-111  the hooks that are registered: a and b may share a
\* phase, c is of a later phase; a may be a plain function
HookConfigs ==
    {f \in [HookNames -> [phase : 1..Len(Phases), timeout : 1..MaxHookTimeout,
                          critical : BOOLEAN, is_coroutine : BOOLEAN]] :
        /\ f["a"].phase \in {2, 3}
        /\ f["b"].phase = 3 /\ f["b"].is_coroutine
        /\ f["c"].phase \in {4, 5} /\ f["c"].timeout = 1 /\ f["c"].is_coroutine
                                   /\ f["c"].critical}

\* The state of a hook's task: not created, created, running, or how it ended;
\* in_thread: its plain-function callback is executing in a worker thread.
NoTask == [status |-> "none", started |-> 0, runs |-> 0, in_thread |-> FALSE]

Finished == {"completed", "failed", "timed_out", "cancelled"}

\* shutdown.py:156  phase_hooks = [h for h in self.hooks if h.phase == phase]
PhaseHooks(p) == {h \in HookNames : hooks[h].phase = p}

\* shutdown.py:173  max(h.timeout for h in phase_hooks)
PhaseTimeout(p) ==
    LET ts == {hooks[h].timeout : h \in PhaseHooks(p)}
    IN  CHOOSE t \in ts : \A u \in ts : u <= t

\* shutdown.py:143-144, 158-159  the phases after p that have hooks; a phase
\* without hooks returns at once
LaterPhases(p) == {q \in (p + 1)..Len(Phases) : PhaseHooks(q) # {}}

IdleShutdown == [pc |-> "idle", phase |-> 0, phase_started |-> 0]

ShutdownIdle ==
    /\ hooks = CHOOSE f \in HookConfigs : TRUE
    /\ is_shutting_down = FALSE
    /\ shutdown_event = FALSE
    /\ sd = [t \in Triggers |-> IdleShutdown]
    /\ hook_task = [h \in HookNames |-> NoTask]
    /\ phase_timeouts = {}
    /\ sclock = 0

ShutdownInit ==
    /\ hooks \in HookConfigs
    /\ is_shutting_down = FALSE
    /\ shutdown_event = FALSE
    /\ sd = [t \in Triggers |-> IdleShutdown]
    /\ hook_task = [h \in HookNames |-> NoTask]
    /\ phase_timeouts = {}
    /\ sclock = 0

\* shutdown.py:143-174, 151-152  the loop over the phases goes on after phase
\* p: it creates the tasks of the next phase that has hooks and waits for
\* them, or it is through and sets the shutdown event. `tasks` is the state of
\* the hook tasks when phase p is left.
EnterNextPhase(t, p, tasks) ==
    IF LaterPhases(p) = {}
    THEN /\ sd' = [sd EXCEPT ![t] = [pc |-> "done", phase |-> 0, phase_started |-> 0]]
         /\ hook_task' = tasks
         /\ shutdown_event' = TRUE
    ELSE LET q == CHOOSE x \in LaterPhases(p) : \A y \in LaterPhases(p) : x <= y
         IN  /\ sd' = [sd EXCEPT ![t] = [pc |-> "phase", phase |-> q,
                                         phase_started |-> sclock]]
             /\ hook_task' = [h \in HookNames |->
                                IF h \in PhaseHooks(q)
                                THEN [tasks[h] EXCEPT !.status = "created"]
                                ELSE tasks[h]]
             /\ shutdown_event' = shutdown_event

\* Mutant of AlreadyShuttingDown: the flag is not looked at.
AlreadyShuttingDown_Ignored(flag) == FALSE

\* shutdown.py:131  if self.is_shutting_down
AlreadyShuttingDown(flag) == flag

\* shutdown.py:129-144  shutdown() is called: it returns when a shutdown is in
\* progress, else it sets the flag and enters the first phase that has hooks
shutdown(t) ==
    /\ sd[t].pc = "idle"
    /\ IF AlreadyShuttingDown(is_shutting_down)
       THEN /\ sd' = [sd EXCEPT ![t].pc = "returned"]
            /\ UNCHANGED <<is_shutting_down, shutdown_event, hook_task>>
       ELSE /\ is_shutting_down' = TRUE
            /\ EnterNextPhase(t, 0, hook_task)
    /\ UNCHANGED <<hooks, phase_timeouts, sclock, nonShutdownVars>>

\* shutdown.py:179-191  the task of hook h starts: it calls the callback under
\* wait_for, in a worker thread when it is a plain function
hook_start(h) ==
    /\ hook_task[h].status = "created"
    /\ hook_task' = [hook_task EXCEPT ![h] =
                       [status |-> "running", started |-> sclock, runs |-> @.runs + 1,
                        in_thread |-> ~hooks[h].is_coroutine]]
    /\ UNCHANGED <<hooks, is_shutting_down, shutdown_event, sd, phase_timeouts, sclock,
                   nonShutdownVars>>

\* shutdown.py:193  the callback returns in time
hook_complete(h) ==
    /\ hook_task[h].status = "running"
    /\ sclock - hook_task[h].started <= hooks[h].timeout
    /\ hook_task' = [hook_task EXCEPT ![h].status = "completed", ![h].in_thread = FALSE]
    /\ UNCHANGED <<hooks, is_shutting_down, shutdown_event, sd, phase_timeouts, sclock,
                   nonShutdownVars>>

\* shutdown.py:201-205  the callback raises; _execute_hook raises again when
\* the hook is critical
hook_fail(h) ==
    /\ hook_task[h].status = "running"
    /\ sclock - hook_task[h].started <= hooks[h].timeout
    /\ hook_task' = [hook_task EXCEPT ![h].status = "failed", ![h].in_thread = FALSE]
    /\ UNCHANGED <<hooks, is_shutting_down, shutdown_event, sd, phase_timeouts, sclock,
                   nonShutdownVars>>

\* shutdown.py:171-174  the wait_for of the phase that runs hook h is due. It
\* was armed before the tasks of the phase started, so it is served before the
\* wait_for of a hook that is due at the same time.
PhaseDue(p) ==
    \E t \in Triggers :
        /\ sd[t].pc = "phase" /\ sd[t].phase = p
        /\ sclock - sd[t].phase_started >= PhaseTimeout(p)

\* shutdown.py:186-199  the wait_for of hook h times out: a coroutine callback
\* is cancelled, a plain function goes on in its thread; _execute_hook raises
\* again when the hook is critical
hook_timeout(h) ==
    /\ hook_task[h].status = "running"
    /\ sclock - hook_task[h].started >= hooks[h].timeout
    /\ ~PhaseDue(hooks[h].phase)
    /\ hook_task' = [hook_task EXCEPT ![h].status = "timed_out"]
    /\ UNCHANGED <<hooks, is_shutting_down, shutdown_event, sd, phase_timeouts, sclock,
                   nonShutdownVars>>

\* A plain-function callback that was left behind returns in its thread.
thread_end(h) ==
    /\ hook_task[h].in_thread
    /\ hook_task[h].status \in {"timed_out", "cancelled"}
    /\ hook_task' = [hook_task EXCEPT ![h].in_thread = FALSE]
    /\ UNCHANGED <<hooks, is_shutting_down, shutdown_event, sd, phase_timeouts, sclock,
                   nonShutdownVars>>

\* shutdown.py:171-174  gather(*tasks, return_exceptions=True) returns the
\* exceptions of the hook tasks as results, and _execute_phase drops the
\* results: the loop over the phases goes on
PhaseOutcome(results) == "continue"

\* The result of the task of hook h: _execute_hook raises only for a critical
\* hook that failed or timed out.
TaskResult(h) ==
    IF hooks[h].critical /\ hook_task[h].status \in {"failed", "timed_out"}
    THEN "raised" ELSE "returned"

\* shutdown.py:148-152  an exception of a phase ends the loop over the phases
Abort(t) ==
    /\ sd' = [sd EXCEPT ![t] = [pc |-> "aborted", phase |-> 0, phase_started |-> 0]]
    /\ shutdown_event' = TRUE
    /\ UNCHANGED hook_task

\* Mutant of GatherDone: the wait ends with the first task that is done.
GatherDone_First(p) == \E h \in PhaseHooks(p) : hook_task[h].status \in Finished

\* shutdown.py:171-172  gather(*tasks) is done when every task of the phase is
GatherDone(p) == \A h \in PhaseHooks(p) : hook_task[h].status \in Finished

\* shutdown.py:171-174  every task of the phase is done: gather completes
phase_done(t) ==
    /\ sd[t].pc = "phase"
    /\ GatherDone(sd[t].phase)
    /\ IF PhaseOutcome({TaskResult(h) : h \in PhaseHooks(sd[t].phase)}) = "abort"
       THEN Abort(t)
       ELSE EnterNextPhase(t, sd[t].phase, hook_task)
    /\ UNCHANGED <<hooks, is_shutting_down, phase_timeouts, sclock, nonShutdownVars>>

\* shutdown.py:171-177  the wait_for of the phase times out: the tasks still
\* running are cancelled, the timeout is logged and the loop goes on
phase_timeout(t) ==
    /\ sd[t].pc = "phase"
    /\ PhaseDue(sd[t].phase)
    /\ \E h \in PhaseHooks(sd[t].phase) : hook_task[h].status \notin Finished
    /\ phase_timeouts' = phase_timeouts \cup {sd[t].phase}
    /\ EnterNextPhase(t, sd[t].phase,
                      [h \in HookNames |->
                         IF h \in PhaseHooks(sd[t].phase) /\ hook_task[h].status \notin Finished
                         THEN [hook_task[h] EXCEPT !.status = "cancelled"]
                         ELSE hook_task[h]])
    /\ UNCHANGED <<hooks, is_shutting_down, sclock, nonShutdownVars>>

\* Time passes, once the tasks that are ready have run and the timeouts that
\* are due have been served.
ShutdownTick ==
    /\ sclock < MaxShutdownTime
    /\ \E t \in Triggers : sd[t].pc = "phase"
    /\ \A h \in HookNames :
          /\ hook_task[h].status # "created"
          /\ hook_task[h].status = "running" =>
                sclock - hook_task[h].started < hooks[h].timeout
    /\ \A p \in 1..Len(Phases) : ~PhaseDue(p)
    /\ sclock' = sclock + 1
    /\ UNCHANGED <<hooks, is_shutting_down, shutdown_event, sd, hook_task, phase_timeouts,
                   nonShutdownVars>>

ShutdownNext ==
    \/ \E t \in Triggers : shutdown(t)
    \/ \E h \in HookNames : hook_start(h)
    \/ \E h \in HookNames : hook_complete(h)
    \/ \E h \in HookNames : hook_fail(h)
    \/ \E h \in HookNames : hook_timeout(h)
    \/ \E h \in HookNames : thread_end(h)
    \/ \E t \in Triggers : phase_done(t)
    \/ \E t \in Triggers : phase_timeout(t)
    \/ ShutdownTick

-----------------------------------------------------------------------------
(* WorkflowVersionManager                                                  *)

VersionCallers == {"w1", "w2"}

\* The workflow definitions the callers pass to create_version.
WorkflowData == {"dA", "dB"}

\* versioning.py:120-123  SHA-256 of the canonical JSON text of the data: equal
\* for equal data, different for the two definitions
calculate_checksum(workflow_data) == <<"sha256", workflow_data>>

NoMeta == [exists |-> FALSE, checksum |-> <<>>, status |-> ""]

NoFetch == [made |-> FALSE, found |-> FALSE, workflow_data |-> "none", checksum |-> <<>>]

IdleVersionCall == [pc |-> "idle", data |-> "none", set_active |-> FALSE, read |-> NoMeta,
                    fetched |-> NoFetch]

VersionIdle ==
    /\ vfile = "none"
    /\ vmeta = NoMeta
    /\ vactive = FALSE
    /\ first_checksum = <<>>
    /\ vm = [w \in VersionCallers |-> IdleVersionCall]

\* versioning.py:239-256  get_version resumes with the metadata it read and
\* loads the file: the version it returns, or None
Loaded(read, file) ==
    IF read.exists /\ file # "none"
    THEN [made |-> TRUE, found |-> TRUE, workflow_data |-> file, checksum |-> read.checksum]
    ELSE [made |-> TRUE, found |-> FALSE, workflow_data |-> "none", checksum |-> <<>>]

\* versioning.py:173, 236-237  create_version is called with a valid version
\* string; get_version reads the metadata
create_version(w, workflow_data, set_active) ==
    /\ vm[w].pc = "idle"
    /\ vm' = [vm EXCEPT ![w] = [IdleVersionCall EXCEPT !.pc = "create_check",
                                                       !.data = workflow_data,
                                                       !.set_active = set_active,
                                                       !.read = vmeta]]
    /\ UNCHANGED <<vfile, vmeta, vactive, first_checksum, nonVersionVars>>

\* versioning.py:173-174, 239-249  existing: the metadata that was read and
\* the file
Existing(read, file) == Loaded(read, file).found

\* versioning.py:174-199  the existence check with what get_version returned:
\* ValueError, or the data is written to the version's file
create_write(w) ==
    /\ vm[w].pc = "create_check"
    /\ IF Existing(vm[w].read, vfile)
       THEN /\ vm' = [vm EXCEPT ![w] = IdleVersionCall]
            /\ vfile' = vfile
       ELSE /\ vm' = [vm EXCEPT ![w].pc = "create_meta"]
            /\ vfile' = vm[w].data
    /\ UNCHANGED <<vmeta, vactive, first_checksum, nonVersionVars>>

\* versioning.py:201-218  Redis executes SET of the metadata, with the
\* checksum of the caller's data
create_set_meta(w) ==
    /\ vm[w].pc = "create_meta"
    /\ vmeta' = [exists |-> TRUE, checksum |-> calculate_checksum(vm[w].data),
                 status |-> IF vm[w].set_active THEN "active" ELSE "draft"]
    /\ first_checksum' = IF first_checksum = <<>> THEN calculate_checksum(vm[w].data)
                         ELSE first_checksum
    /\ vm' = [vm EXCEPT ![w] = IF vm[w].set_active THEN [@ EXCEPT !.pc = "create_active"]
                               ELSE IdleVersionCall]
    /\ UNCHANGED <<vfile, vactive, nonVersionVars>>

\* versioning.py:221-227  Redis executes SET of the active key
create_set_active(w) ==
    /\ vm[w].pc = "create_active"
    /\ vactive' = TRUE
    /\ vm' = [vm EXCEPT ![w] = IdleVersionCall]
    /\ UNCHANGED <<vfile, vmeta, first_checksum, nonVersionVars>>

\* versioning.py:321, 236-237  set_active_version is called; get_version
\* reads the metadata
set_active_version(w) ==
    /\ vm[w].pc = "idle"
    /\ vm' = [vm EXCEPT ![w] = [IdleVersionCall EXCEPT !.pc = "active_check", !.read = vmeta]]
    /\ UNCHANGED <<vfile, vmeta, vactive, first_checksum, nonVersionVars>>

\* versioning.py:322-327  ValueError when the version was not found, else
\* Redis executes SET of the active key
set_active_set(w) ==
    /\ vm[w].pc = "active_check"
    /\ IF Loaded(vm[w].read, vfile).found
       THEN /\ vactive' = TRUE
            /\ vm' = [vm EXCEPT ![w].pc = "active_get"]
       ELSE /\ vactive' = vactive
            /\ vm' = [vm EXCEPT ![w] = IdleVersionCall]
    /\ UNCHANGED <<vfile, vmeta, first_checksum, nonVersionVars>>

\* versioning.py:330-331  Redis executes GET of the metadata
set_active_get(w) ==
    /\ vm[w].pc = "active_get"
    /\ vm' = [vm EXCEPT ![w].pc = "active_meta", ![w].read = vmeta]
    /\ UNCHANGED <<vfile, vmeta, vactive, first_checksum, nonVersionVars>>

\* versioning.py:332-338  Redis executes SET of the metadata that was read,
\* with status active
set_active_set_meta(w) ==
    /\ vm[w].pc = "active_meta"
    /\ vmeta' = IF vm[w].read.exists THEN [vm[w].read EXCEPT !.status = "active"] ELSE vmeta
    /\ vm' = [vm EXCEPT ![w] = IdleVersionCall]
    /\ UNCHANGED <<vfile, vactive, first_checksum, nonVersionVars>>

\* versioning.py:472-473  deprecate_version is called; Redis executes GET
deprecate_version(w) ==
    /\ vm[w].pc = "idle"
    /\ vm' = [vm EXCEPT ![w] = IF vmeta.exists
                               THEN [IdleVersionCall EXCEPT !.pc = "deprecate_meta",
                                                            !.read = vmeta]
                               ELSE IdleVersionCall]
    /\ UNCHANGED <<vfile, vmeta, vactive, first_checksum, nonVersionVars>>

\* versioning.py:478-483  Redis executes SET of the metadata that was read,
\* with status deprecated
deprecate_set_meta(w) ==
    /\ vm[w].pc = "deprecate_meta"
    /\ vmeta' = [vm[w].read EXCEPT !.status = "deprecated"]
    /\ vm' = [vm EXCEPT ![w] = IdleVersionCall]
    /\ UNCHANGED <<vfile, vactive, first_checksum, nonVersionVars>>

\* versioning.py:229-237  get_version is called; Redis executes GET
get_version(w) ==
    /\ vm[w].pc = "idle"
    /\ vm' = [vm EXCEPT ![w] = [IdleVersionCall EXCEPT !.pc = "fetch", !.read = vmeta]]
    /\ UNCHANGED <<vfile, vmeta, vactive, first_checksum, nonVersionVars>>

\* versioning.py:239-256  get_version loads the file and returns
get_version_return(w) ==
    /\ vm[w].pc = "fetch"
    /\ vm' = [vm EXCEPT ![w] = [IdleVersionCall EXCEPT
                                   !.fetched = Loaded(vm[w].read, vfile)]]
    /\ UNCHANGED <<vfile, vmeta, vactive, first_checksum, nonVersionVars>>

VersionNext ==
    \/ \E w \in VersionCallers, d \in WorkflowData, a \in BOOLEAN : create_version(w, d, a)
    \/ \E w \in VersionCallers : create_write(w)
    \/ \E w \in VersionCallers : create_set_meta(w)
    \/ \E w \in VersionCallers : create_set_active(w)
    \/ \E w \in VersionCallers : set_active_version(w)
    \/ \E w \in VersionCallers : set_active_set(w)
    \/ \E w \in VersionCallers : set_active_get(w)
    \/ \E w \in VersionCallers : set_active_set_meta(w)
    \/ \E w \in VersionCallers : deprecate_version(w)
    \/ \E w \in VersionCallers : deprecate_set_meta(w)
    \/ \E w \in VersionCallers : get_version(w)
    \/ \E w \in VersionCallers : get_version_return(w)

-----------------------------------------------------------------------------
(* ABTestingManager.assign_variant                                         *)

AbTasks == {"t1", "t2"}

AbUsers == {"u1", "u2"}

\* The variants of the experiment with their traffic weights, in percent.
Variants == <<[variant_id |-> "control", traffic_weight |-> 50],
              [variant_id |-> "treatment", traffic_weight |-> 50]>>

\* The values of random.random() the model draws, in percent.
Rands == {25, 75}

NoAssign == [made |-> FALSE, sticky |-> FALSE, user |-> "", variant |-> "none", after |-> {}]

IdleAssign == [pc |-> "idle", user |-> "", rand |-> 0, variant |-> "none", after |-> {},
               last |-> NoAssign]

AbIdle ==
    /\ assignments = [u \in AbUsers |-> "none"]
    /\ given = [u \in AbUsers |-> {}]
    /\ abt = [t \in AbTasks |-> IdleAssign]

RECURSIVE WeightedFrom(_, _, _, _)
\* ab_testing.py:580-586  the loop over the variants; the last one as fallback
WeightedFrom(variants, rand, i, cumulative) ==
    IF i > Len(variants) THEN variants[Len(variants)].variant_id
    ELSE IF rand <= cumulative + variants[i].traffic_weight THEN variants[i].variant_id
    ELSE WeightedFrom(variants, rand, i + 1, cumulative + variants[i].traffic_weight)

\* ab_testing.py:575-586
weighted_random_choice(variants, rand) == WeightedFrom(variants, rand, 1, 0)

\* ab_testing.py:334-337  the stored id is the id of a variant of the experiment
FindVariant(variants, existing_variant_id) ==
    \E i \in 1..Len(variants) : variants[i].variant_id = existing_variant_id

\* The call of task t returns the variant.
AssignReturn(t, sticky, variant) ==
    /\ abt' = [abt EXCEPT ![t] = [IdleAssign EXCEPT
                  !.last = [made |-> TRUE, sticky |-> sticky, user |-> abt[t].user,
                            variant |-> variant, after |-> abt[t].after]]]
    /\ given' = IF sticky THEN [given EXCEPT ![abt[t].user] = @ \cup {variant}] ELSE given

\* ab_testing.py:301-326  assign_variant is called for a running experiment
\* and reads the experiment
assign_variant(t, user_id, sticky, rand) ==
    /\ abt[t].pc = "idle"
    /\ abt' = [abt EXCEPT ![t] = [IdleAssign EXCEPT
                  !.pc = IF sticky THEN "get" ELSE "choose",
                  !.user = user_id, !.rand = rand, !.after = given[user_id]]]
    /\ UNCHANGED <<assignments, given, nonAbVars>>

\* ab_testing.py:340, 351  not sticky: a weighted random variant, nothing stored
assign_fresh(t) ==
    /\ abt[t].pc = "choose"
    /\ AssignReturn(t, FALSE, weighted_random_choice(Variants, abt[t].rand))
    /\ UNCHANGED <<assignments, nonAbVars>>

\* ab_testing.py:329-340  Redis executes GET of the assignment key; the stored
\* variant is returned, else a weighted random one is chosen
assign_get(t) ==
    /\ abt[t].pc = "get"
    /\ IF assignments[abt[t].user] # "none" /\ FindVariant(Variants, assignments[abt[t].user])
       THEN AssignReturn(t, TRUE, assignments[abt[t].user])
       ELSE /\ abt' = [abt EXCEPT ![t].pc = "set",
                                  ![t].variant = weighted_random_choice(Variants, abt[t].rand)]
            /\ given' = given
    /\ UNCHANGED <<assignments, nonAbVars>>

\* ab_testing.py:343-351  Redis executes SET of the assignment key; the call
\* returns the variant it chose
assign_set(t) ==
    /\ abt[t].pc = "set"
    /\ assignments' = [assignments EXCEPT ![abt[t].user] = abt[t].variant]
    /\ AssignReturn(t, TRUE, abt[t].variant)
    /\ UNCHANGED nonAbVars

AbNext ==
    \/ \E t \in AbTasks, u \in AbUsers, s \in BOOLEAN, r \in Rands : assign_variant(t, u, s, r)
    \/ \E t \in AbTasks : assign_fresh(t)
    \/ \E t \in AbTasks : assign_get(t)
    \/ \E t \in AbTasks : assign_set(t)

-----------------------------------------------------------------------------
(* AgentCoordinator.wait_for_result                                        *)

\* coordinator.py:372  asyncio.sleep(0.1): the unit of the clock
PollInterval == 1

WaitTimeouts == 0..MaxTimeout

\* The messages the agents publish while the coordinator waits.
WaitMessages == [type : MessageTypes, sender : Agents, recipient : {Broadcast}]

NoMessage == [id |-> 0, type |-> "", sender |-> "", recipient |-> ""]

IdleWait == [pc |-> "idle", agent_id |-> "", timeout |-> 0, start_time |-> 0, slept_at |-> 0,
             from |-> 0, polled |-> 0, at_deadline |-> -1, result |-> NoMessage,
             returned_at |-> 0]

WaitIdle ==
    /\ wnow = 0
    /\ wt = IdleWait

\* Mutant of TimeLeft: the loop does not look at the clock.
TimeLeft_Always(current_time, start_time, timeout) == TRUE

\* coordinator.py:361  the condition of the polling loop
TimeLeft(current_time, start_time, timeout) == current_time - start_time < timeout

\* coordinator.py:361-375  one pass of the loop of the call w: over when the
\* time is up, else a poll of the history, which ends the call or puts it to
\* sleep
Poll(w) ==
    IF ~TimeLeft(wnow, w.start_time, w.timeout)
    THEN [w EXCEPT !.pc = "returned", !.result = NoMessage, !.returned_at = wnow]
    ELSE LET history == get_history(10, "task_result", w.agent_id)
         IN  IF history # <<>>
             THEN [w EXCEPT !.pc = "returned", !.result = history[1],
                            !.polled = Len(published), !.returned_at = wnow]
             ELSE [w EXCEPT !.pc = "sleep", !.slept_at = wnow, !.polled = Len(published)]

\* coordinator.py:344-372  wait_for_result is called and runs to its first
\* sleep or to its return
wait_for_result(agent_id, timeout) ==
    /\ wt.pc = "idle"
    /\ wt' = Poll([IdleWait EXCEPT !.agent_id = agent_id, !.timeout = timeout,
                                   !.start_time = wnow, !.from = Len(published),
                                   !.at_deadline = IF timeout = 0 THEN Len(published)
                                                   ELSE -1])
    /\ UNCHANGED <<wnow, nonWaitVars>>

\* coordinator.py:372, 361-375  the sleep is over and the loop goes on
wait_wake ==
    /\ wt.pc = "sleep"
    /\ wnow >= wt.slept_at + PollInterval
    /\ wt' = Poll(wt)
    /\ UNCHANGED <<wnow, nonWaitVars>>

\* The caller has the result and may call again.
wait_done ==
    /\ wt.pc = "returned"
    /\ wt' = IdleWait
    /\ UNCHANGED <<wnow, nonWaitVars>>

\* Time passes, no further than the end of a sleep; the messages published
\* before the timeout of a pending call is reached are noted.
WaitTick ==
    /\ wnow < MaxWaitTime
    /\ ~(wt.pc = "sleep" /\ wnow >= wt.slept_at + PollInterval)
    /\ wnow' = wnow + 1
    /\ wt' = IF wt.pc = "sleep" /\ wt.at_deadline = -1
                 /\ wnow + 1 - wt.start_time >= wt.timeout
              THEN [wt EXCEPT !.at_deadline = Len(published)]
              ELSE wt
    /\ UNCHANGED nonWaitVars

WaitNext ==
    \/ \E a \in Agents, t \in WaitTimeouts : wait_for_result(a, t)
    \/ wait_wake
    \/ wait_done
    \/ WaitTick
    \/ \E m \in WaitMessages : publish("p1", m)
    \/ publish_done("p1")

-----------------------------------------------------------------------------
(* BaseAgent: the handler of a TaskAssignment.  The event bus runs the     *)
(* agent's callback in a task of its own for every message it delivers, so *)
(* the handlers of two assignments published concurrently overlap.         *)

Handlers == {"h1", "h2"}

IdleHandler == [pc |-> "idle", tools |-> 0]

\* base_agent.py:79  AgentState(agent_id=agent_id, status="idle")
AgentIdle ==
    /\ state_status = "idle"
    /\ ah = [h \in Handlers |-> IdleHandler]

\* base_agent.py:123-132  _handle_task_assignment starts and calls process_task
handle_task_assignment(h) ==
    /\ ah[h].pc = "idle"
    /\ state_status' = "thinking"
    /\ ah' = [ah EXCEPT ![h].pc = "process"]
    /\ UNCHANGED nonAgentVars

\* base_agent.py:226-244  process_task calls use_tool, which awaits the
\* registry
use_tool(h) ==
    /\ ah[h].pc = "process"
    /\ ah[h].tools < MaxTools
    /\ state_status' = "executing"
    /\ ah' = [ah EXCEPT ![h].pc = "tool", ![h].tools = @ + 1]
    /\ UNCHANGED nonAgentVars

\* base_agent.py:246-256  execute has returned or raised: the finally clause
use_tool_end(h) ==
    /\ ah[h].pc = "tool"
    /\ state_status' = "thinking"
    /\ ah' = [ah EXCEPT ![h].pc = "process"]
    /\ UNCHANGED nonAgentVars

\* base_agent.py:132-135  process_task returns and _send_result publishes
process_return(h) ==
    /\ ah[h].pc = "process"
    /\ ah' = [ah EXCEPT ![h].pc = "send_result"]
    /\ UNCHANGED <<state_status, nonAgentVars>>

\* base_agent.py:140-144  process_task raises and _send_error publishes
process_raise(h) ==
    /\ ah[h].pc = "process"
    /\ ah' = [ah EXCEPT ![h].pc = "send_error"]
    /\ UNCHANGED <<state_status, nonAgentVars>>

\* base_agent.py:135-138 and 144-146  the publish is over: the status is reset
\* and the handler returns
handler_end(h) ==
    /\ ah[h].pc \in {"send_result", "send_error"}
    /\ state_status' = "idle"
    /\ ah' = [ah EXCEPT ![h] = IdleHandler]
    /\ UNCHANGED nonAgentVars

AgentNext ==
    \/ \E h \in Handlers : handle_task_assignment(h)
    \/ \E h \in Handlers : use_tool(h)
    \/ \E h \in Handlers : use_tool_end(h)
    \/ \E h \in Handlers : process_return(h)
    \/ \E h \in Handlers : process_raise(h)
    \/ \E h \in Handlers : handler_end(h)

-----------------------------------------------------------------------------
(* ProviderRouter._check_health                                            *)

HealthCallers == {"a", "b"}

HealthProviders == <<"ollama", "jan">>

ProbeResults == {"healthy", "unhealthy", "timeout", "error"}

IdleHealth == [pc |-> "idle", name |-> "", result |-> "none"]

HealthIdle ==
    /\ probe_age = [n \in ProviderNames |-> HealthInterval]
    /\ hc = [c \in HealthCallers |-> IdleHealth]

\* router.py:177-182  _check_health is called: the cached result when it is
\* fresh, else the provider's health_check is awaited
check_health(c, name) ==
    /\ hc[c].pc = "idle"
    /\ hc' = [hc EXCEPT ![c] =
                IF HealthFresh(circuit_breakers[name])
                THEN [pc |-> "idle", name |-> name,
                      result |-> IF circuit_breakers[name].is_healthy THEN "healthy"
                                 ELSE "unhealthy"]
                ELSE [pc |-> "probe", name |-> name, result |-> "none"]]
    /\ UNCHANGED <<probe_age, nonHealthVars>>

\* router.py:185-207  what the end of a probe leaves in the breaker: the
\* verdict and the time of the check, or after a timeout or an exception
\* is_healthy = False alone
AfterProbe(b, result) ==
    IF result \in {"timeout", "error"}
    THEN [b EXCEPT !.is_healthy = FALSE]
    ELSE [b EXCEPT !.is_healthy = (result = "healthy"), !.health_age = 0]

\* router.py:185-207  the awaited health_check returns, times out or raises
health_return(c, result) ==
    /\ hc[c].pc = "probe"
    /\ circuit_breakers' = [circuit_breakers EXCEPT ![hc[c].name] = AfterProbe(@, result)]
    /\ probe_age' = [probe_age EXCEPT ![hc[c].name] = 0]
    /\ hc' = [hc EXCEPT ![c].pc = "idle",
                        ![c].result = IF result = "healthy" THEN "healthy" ELSE "unhealthy"]
    /\ UNCHANGED <<providers, req, streak, exceptRouterHealthVars>>

\* time.time() advances by one unit.
HealthTick ==
    /\ circuit_breakers' =
         [n \in DOMAIN circuit_breakers |->
            [circuit_breakers[n] EXCEPT
               !.fail_age = IF @ < CoolOff THEN @ + 1 ELSE @,
               !.health_age = IF @ < HealthInterval THEN @ + 1 ELSE @]]
    /\ probe_age' = [n \in ProviderNames |->
                       IF probe_age[n] < HealthInterval THEN probe_age[n] + 1
                       ELSE probe_age[n]]
    /\ <<circuit_breakers', probe_age'>> # <<circuit_breakers, probe_age>>
    /\ UNCHANGED <<hc, providers, req, streak, exceptRouterHealthVars>>

HealthNext ==
    \/ \E c \in HealthCallers, n \in SeqToSet(HealthProviders) : check_health(c, n)
    \/ \E c \in HealthCallers, r \in ProbeResults : health_return(c, r)
    \/ HealthTick

-----------------------------------------------------------------------------
(* EventBus.get_history, called between the publishes                      *)

\* The counts a caller passes.
Counts == 0..MaxCount

NoQuery == [made |-> FALSE, count |-> 0, message_type |-> "None", sender |-> "None",
            history |-> <<>>, returned |-> <<>>]

QueryIdle == hq = NoQuery

\* coordinator.py:164-191  get_history is called and returns its list
query_history(count, message_type, sender) ==
    /\ hq' = [made |-> TRUE, count |-> count, message_type |-> message_type,
              sender |-> sender, history |-> message_history,
              returned |-> get_history(count, message_type, sender)]
    /\ UNCHANGED nonQueryVars

QueryNext ==
    \/ \E count \in Counts, t \in MessageTypes \cup {"None"}, s \in Agents \cup {"None"} :
          query_history(count, t, s)
    \/ \E m \in WaitMessages : publish("p1", m)
    \/ publish_done("p1")

-----------------------------------------------------------------------------
(* ABTestingManager: the metrics of a variant.  A rate is kept as the pair *)
(* <<numerator, denominator>> of the division that computed it.            *)

MetricCallers == {"m1", "m2"}

RecordOps == {"impression", "success", "failure"}

\* The latency and the cost a caller reports with a success.
Amounts == {0, 1}

\* ab_testing.py:270-277  the metrics create_experiment stores for a variant
NewMetrics ==
    [impressions |-> 0, successes |-> 0, failures |-> 0, total_latency |-> 0,
     total_cost |-> 0, conversion_rate |-> <<0, 1>>, avg_latency |-> <<0, 1>>,
     avg_cost |-> <<0, 1>>]

IdleRecord == [pc |-> "idle", op |-> "", latency |-> 0, cost |-> 0, loaded |-> NewMetrics]

MetricsIdle ==
    /\ metrics = NewMetrics
    /\ mrec = [c \in MetricCallers |-> IdleRecord]
    /\ recorded = 0
    /\ mread = [made |-> FALSE, value |-> NewMetrics]

\* ab_testing.py:64-69  ExperimentMetrics.calculate_derived_metrics
calculate_derived_metrics(m) ==
    IF m.impressions > 0
    THEN [m EXCEPT !.conversion_rate = <<m.successes, m.impressions>>,
                   !.avg_latency = <<m.total_latency, m.impressions>>,
                   !.avg_cost = <<m.total_cost, m.impressions>>]
    ELSE m

\* ab_testing.py:364, 376-380, 398-399  what a record_* call does to the
\* metrics it loaded
Recorded(m, op, latency, cost) ==
    IF op = "impression" THEN [m EXCEPT !.impressions = @ + 1]
    ELSE IF op = "success"
    THEN calculate_derived_metrics([m EXCEPT !.successes = @ + 1,
                                             !.total_latency = @ + latency,
                                             !.total_cost = @ + cost])
    ELSE calculate_derived_metrics([m EXCEPT !.failures = @ + 1])

\* ab_testing.py:353-359, 369-374, 391-396  a record_* call; Redis executes
\* the GET of _get_metrics
record_call(c, op, latency, cost) ==
    /\ mrec[c].pc = "idle"
    /\ recorded < MaxRecords
    /\ recorded' = recorded + 1
    /\ mrec' = [mrec EXCEPT ![c] = [pc |-> "store", op |-> op, latency |-> latency,
                                    cost |-> cost, loaded |-> metrics]]
    /\ UNCHANGED <<metrics, mread, nonMetricsVars>>

\* ab_testing.py:364-367, 376-389, 398-406  the counters are updated and
\* Redis executes the SET of _store_metrics
record_store(c) ==
    /\ mrec[c].pc = "store"
    /\ metrics' = Recorded(mrec[c].loaded, mrec[c].op, mrec[c].latency, mrec[c].cost)
    /\ mrec' = [mrec EXCEPT ![c] = IdleRecord]
    /\ UNCHANGED <<recorded, mread, nonMetricsVars>>

\* ab_testing.py:408-423  get_metrics returns the stored metrics of the variant
get_metrics ==
    /\ mread' = [made |-> TRUE, value |-> metrics]
    /\ UNCHANGED <<metrics, mrec, recorded, nonMetricsVars>>

MetricsNext ==
    \/ \E c \in MetricCallers, op \in RecordOps, l \in Amounts, a \in Amounts :
          record_call(c, op, IF op = "success" THEN l ELSE 0, IF op = "success" THEN a ELSE 0)
    \/ \E c \in MetricCallers : record_store(c)
    \/ get_metrics

\* ---------------------------------------------------------------------
\* LLMOps logger: log_invocation, _flush, flush_and_close
\* (src/src/llmops/logger.py)
\* ---------------------------------------------------------------------
LogCallers == {"l1", "l2"}

IdleLog == [pc |-> "idle", batch |-> 0, locked |-> FALSE]

LoggerIdle ==
    /\ log_batch = 0
    /\ log_lock = "none"
    /\ log_rows = 0
    /\ log_calls = 0
    /\ lg = [c \in LogCallers |-> IdleLog]

\* The calls suspended in Lock.acquire().
LockWaiters == {c \in LogCallers : lg[c].pc \in {"wait", "close_wait", "requeue"}}

\* Lock.acquire() returns without suspending only when the lock is free
\* and no call is queued for it.
LockFree == log_lock = "none" /\ LockWaiters = {}

\* _flush up to its first await: nothing to do for an empty batch, else
\* the batch is copied and cleared and the call waits for the database.
\* `locked` tells whether the calling frame holds the lock.
_flush(c, n, locked) ==
    IF n = 0
    THEN /\ log_batch' = 0
         /\ log_lock' = IF locked THEN "none" ELSE log_lock
         /\ lg' = [lg EXCEPT ![c] = IdleLog]
    ELSE /\ log_batch' = 0
         /\ log_lock' = IF locked THEN c ELSE log_lock
         /\ lg' = [lg EXCEPT ![c] = [pc |-> "db", batch |-> n, locked |-> locked]]

\* The body of log_invocation under the lock: append, flush a full batch.
append_entry(c) ==
    IF log_batch + 1 >= BatchSize
    THEN _flush(c, log_batch + 1, TRUE)
    ELSE /\ log_batch' = log_batch + 1
         /\ log_lock' = "none"
         /\ lg' = [lg EXCEPT ![c] = IdleLog]

\* The body of flush_and_close under the lock.
close_body(c) ==
    IF log_batch > 0
    THEN _flush(c, log_batch, TRUE)
    ELSE /\ log_lock' = "none"
         /\ lg' = [lg EXCEPT ![c] = IdleLog]
         /\ UNCHANGED log_batch

\* log_invocation: a ValueError for invalid fields, else the entry is
\* appended under the lock.
log_invocation(c, valid) ==
    /\ lg[c].pc = "idle"
    /\ log_calls < MaxLogCalls
    /\ log_calls' = log_calls + 1
    /\ IF ~valid THEN UNCHANGED <<log_batch, log_lock, lg>>
       ELSE IF LockFree THEN append_entry(c)
       ELSE /\ lg' = [lg EXCEPT ![c].pc = "wait"]
            /\ UNCHANGED <<log_batch, log_lock>>
    /\ UNCHANGED <<log_rows, nonLoggerVars>>

flush_and_close(c) ==
    /\ lg[c].pc = "idle"
    /\ log_calls < MaxLogCalls
    /\ log_calls' = log_calls + 1
    /\ IF LockFree THEN close_body(c)
       ELSE /\ lg' = [lg EXCEPT ![c].pc = "close_wait"]
            /\ UNCHANGED <<log_batch, log_lock>>
    /\ UNCHANGED <<log_rows, nonLoggerVars>>

\* _flush called by hand ("Can also be called manually to force
\* immediate persistence"): the caller does not hold the lock.
manual_flush(c) ==
    /\ lg[c].pc = "idle"
    /\ log_calls < MaxLogCalls
    /\ log_calls' = log_calls + 1
    /\ _flush(c, log_batch, FALSE)
    /\ UNCHANGED <<log_rows, nonLoggerVars>>

\* A call suspended in log_invocation or flush_and_close gets the lock.
lock_acquired(c) ==
    /\ log_lock = "none"
    /\ \/ lg[c].pc = "wait" /\ append_entry(c)
       \/ lg[c].pc = "close_wait" /\ close_body(c)
    /\ UNCHANGED <<log_rows, log_calls, nonLoggerVars>>

\* The except branch of _flush once it holds the lock: the copied batch
\* is put back and the call returns.
extend_batch(c) ==
    /\ log_batch' = log_batch + lg[c].batch
    /\ log_lock' = "none"
    /\ lg' = [lg EXCEPT ![c] = IdleLog]

\* The database answers: the rows are inserted and the call returns, or
\* an exception sends _flush to `async with self._lock`.
executemany(c, ok) ==
    /\ lg[c].pc = "db"
    /\ IF ok
       THEN /\ log_rows' = log_rows + lg[c].batch
            /\ log_lock' = IF lg[c].locked THEN "none" ELSE log_lock
            /\ lg' = [lg EXCEPT ![c] = IdleLog]
            /\ UNCHANGED log_batch
       ELSE /\ IF LockFree THEN extend_batch(c)
               ELSE /\ lg' = [lg EXCEPT ![c].pc = "requeue"]
                    /\ UNCHANGED <<log_batch, log_lock>>
            /\ UNCHANGED log_rows
    /\ UNCHANGED <<log_calls, nonLoggerVars>>

\* _flush, suspended in its except branch, gets the lock.
requeue(c) ==
    /\ lg[c].pc = "requeue"
    /\ log_lock = "none"
    /\ extend_batch(c)
    /\ UNCHANGED <<log_rows, log_calls, nonLoggerVars>>

\* The steps the event loop owes a call that has started.
LoggerStep(c) ==
    \/ lock_acquired(c)
    \/ \E ok \in BOOLEAN : executemany(c, ok)
    \/ requeue(c)

LoggerNext ==
    \E c \in LogCallers :
        \/ \E valid \in BOOLEAN : log_invocation(c, valid)
        \/ flush_and_close(c)
        \/ manual_flush(c)
        \/ LoggerStep(c)

\* ---------------------------------------------------------------------
\* AgentCoordinator: register_agent, unregister_agent, assign_task,
\* get_agent_status (src/src/agents/coordinator.py)
\* ---------------------------------------------------------------------
AgentIds == {"planner", "coder"}
Assigners == {"t1", "t2"}

NotRegistered == [status |-> "none", callback |-> FALSE]
IdleAssignTask == [pc |-> "idle", agent |-> ""]

CoordIdle ==
    /\ agents = [a \in AgentIds |-> NotRegistered]
    /\ unfinished = [a \in AgentIds |-> 0]
    /\ assigned = 0
    /\ asg = [c \in Assigners |-> IdleAssignTask]

\* register_agent: the AgentInfo is (re)created with status idle and the
\* callback, if any, subscribed.
register_agent(agent_id, callback) ==
    /\ agents' = [agents EXCEPT ![agent_id] = [status |-> "idle", callback |-> callback]]
    /\ UNCHANGED <<unfinished, assigned, asg, nonCoordVars>>

unregister_agent(agent_id) ==
    /\ agents[agent_id] # NotRegistered
    /\ agents' = [agents EXCEPT ![agent_id] = NotRegistered]
    /\ UNCHANGED <<unfinished, assigned, asg, nonCoordVars>>

\* get_agent_status(agent_id)["status"], "none" for the empty dict.
get_agent_status(agent_id) == agents[agent_id].status

\* The end of assign_task, after publish has returned: the status of a
\* registered agent is set to busy.
set_busy(agent_id) ==
    agents' = IF agents[agent_id] # NotRegistered
              THEN [agents EXCEPT ![agent_id].status = "busy"]
              ELSE agents

\* assign_task: the TASK_ASSIGNMENT is published.  With a subscribed
\* callback publish awaits the delivery; without one it returns at once
\* and the call goes on to the status update.
assign_task(c, agent_id) ==
    /\ asg[c].pc = "idle"
    /\ assigned < MaxAssign
    /\ assigned' = assigned + 1
    /\ unfinished' = [unfinished EXCEPT ![agent_id] = @ + 1]
    /\ IF agents[agent_id].callback
       THEN /\ asg' = [asg EXCEPT ![c] = [pc |-> "delivering", agent |-> agent_id]]
            /\ UNCHANGED agents
       ELSE /\ set_busy(agent_id)
            /\ UNCHANGED asg
    /\ UNCHANGED nonCoordVars

\* The agent's callback (BaseAgent.handle_message) handles the
\* assignment and publishes its TaskResult or its Error.
deliver(c) ==
    /\ asg[c].pc = "delivering"
    /\ unfinished' = [unfinished EXCEPT ![asg[c].agent] = @ - 1]
    /\ asg' = [asg EXCEPT ![c].pc = "delivered"]
    /\ UNCHANGED <<agents, assigned, nonCoordVars>>

\* publish returns to assign_task, which updates the status and returns.
assign_return(c) ==
    /\ asg[c].pc = "delivered"
    /\ set_busy(asg[c].agent)
    /\ asg' = [asg EXCEPT ![c] = IdleAssignTask]
    /\ UNCHANGED <<unfinished, assigned, nonCoordVars>>

CoordNext ==
    \/ \E a \in AgentIds, callback \in BOOLEAN : register_agent(a, callback)
    \/ \E a \in AgentIds : unregister_agent(a)
    \/ \E c \in Assigners, a \in AgentIds : assign_task(c, a)
    \/ \E c \in Assigners : deliver(c) \/ assign_return(c)

\* ---------------------------------------------------------------------
\* WorkflowVersionManager, the versions of one workflow under a sequence
\* of calls: every action is one whole call, made after the previous one
\* has returned (src/src/workflows/versioning.py)
\* ---------------------------------------------------------------------
\* Version i stands for the semantic version "i.0.0".
Versions == 1..NumVersions

NoVersionCall == [op |-> "none", version |-> 0, ok |-> FALSE]

LineageIdle ==
    /\ statuses = [v \in Versions |-> "none"]
    /\ active_key = 0
    /\ vlast = NoVersionCall

\* set_active_version, past its existence check: SET of the active key,
\* then the version's own metadata is rewritten with status active.
Activate(version) ==
    /\ active_key' = version
    /\ statuses' = [statuses EXCEPT ![version] = "active"]

\* create_version: ValueError for an existing version; else the metadata
\* is stored with status active or draft and, for set_active, the active
\* key is set.
CreateVersion(version, set_active) ==
    /\ IF statuses[version] # "none"
       THEN /\ UNCHANGED <<statuses, active_key>>
            /\ vlast' = [op |-> "create_version", version |-> version, ok |-> FALSE]
       ELSE /\ statuses' = [statuses EXCEPT ![version] =
                               IF set_active THEN "active" ELSE "draft"]
            /\ active_key' = IF set_active THEN version ELSE active_key
            /\ vlast' = [op |-> "create_version", version |-> version, ok |-> TRUE]
    /\ UNCHANGED nonLineageVars

\* set_active_version: ValueError for a version that is not found.
SetActiveVersion(version) ==
    /\ IF statuses[version] = "none"
       THEN /\ UNCHANGED <<statuses, active_key>>
            /\ vlast' = [op |-> "set_active_version", version |-> version, ok |-> FALSE]
       ELSE /\ Activate(version)
            /\ vlast' = [op |-> "set_active_version", version |-> version, ok |-> TRUE]
    /\ UNCHANGED nonLineageVars

\* rollback: set_active_version(target_version), then the version is read
\* and returned.
rollback(target_version) ==
    /\ IF statuses[target_version] = "none"
       THEN /\ UNCHANGED <<statuses, active_key>>
            /\ vlast' = [op |-> "rollback", version |-> target_version, ok |-> FALSE]
       ELSE /\ Activate(target_version)
            /\ vlast' = [op |-> "rollback", version |-> target_version, ok |-> TRUE]
    /\ UNCHANGED nonLineageVars

\* deprecate_version: False for a version without metadata, else its
\* metadata is rewritten with status deprecated.
DeprecateVersion(version) ==
    /\ IF statuses[version] = "none"
       THEN /\ UNCHANGED <<statuses, active_key>>
            /\ vlast' = [op |-> "deprecate_version", version |-> version, ok |-> FALSE]
       ELSE /\ statuses' = [statuses EXCEPT ![version] = "deprecated"]
            /\ UNCHANGED active_key
            /\ vlast' = [op |-> "deprecate_version", version |-> version, ok |-> TRUE]
    /\ UNCHANGED nonLineageVars

LineageNext ==
    \E version \in Versions :
        \/ \E set_active \in BOOLEAN : CreateVersion(version, set_active)
        \/ SetActiveVersion(version)
        \/ rollback(version)
        \/ DeprecateVersion(version)

-----------------------------------------------------------------------------
(* Specifications                                                          *)

\* Concurrent deduct_budget calls against an existing budget.
InitBudget == BudgetInit /\ CostInit /\ RouterIdle /\ StreamIdle /\ BusInit /\ AlertIdle /\ ToolIdle /\ ShutdownIdle
    /\ VersionIdle
    /\ AbIdle
    /\ WaitIdle
    /\ AgentIdle
    /\ HealthIdle
    /\ QueryIdle
    /\ MetricsIdle
    /\ LoggerIdle
    /\ CoordIdle
    /\ LineageIdle
SpecBudget == InitBudget /\ [][BudgetNext]_vars

\* The same calls under the scheduling of the event loop: Redis answers every
\* command and the loop resumes every task that is ready, so no call that can
\* take a step is left waiting forever.
\* The callers are interchangeable: they are numbered by rising cost.
InitBudgetLive ==
    /\ InitBudget
    /\ \A d \in Deductors : d < NumDeduct => dcost[d] <= dcost[d + 1]
    /\ HealthIdle
    /\ QueryIdle
    /\ MetricsIdle
    /\ LoggerIdle
    /\ CoordIdle
    /\ LineageIdle
SpecBudgetLive ==
    InitBudgetLive /\ [][BudgetNext]_vars /\ \A d \in Deductors : WF_vars(deduct_budget(d))

\* Concurrent deduct_budget calls interleaved with create_budget calls.
InitBudgetCreate == BudgetEmptyInit /\ CostInit /\ RouterIdle /\ StreamIdle /\ BusInit /\ AlertIdle /\ ToolIdle /\ ShutdownIdle
    /\ VersionIdle
    /\ AbIdle
    /\ WaitIdle
    /\ AgentIdle
    /\ HealthIdle
    /\ QueryIdle
    /\ MetricsIdle
    /\ LoggerIdle
    /\ CoordIdle
    /\ LineageIdle
SpecBudgetCreate == InitBudgetCreate /\ [][BudgetCreateNext]_vars

\* Concurrent track_cost calls.
InitCost == CostInit /\ BudgetIdle /\ RouterIdle /\ StreamIdle /\ BusInit /\ AlertIdle /\ ToolIdle /\ ShutdownIdle
    /\ VersionIdle
    /\ AbIdle
    /\ WaitIdle
    /\ AgentIdle
    /\ HealthIdle
    /\ QueryIdle
    /\ MetricsIdle
    /\ LoggerIdle
    /\ CoordIdle
    /\ LineageIdle
SpecCost == InitCost /\ [][CostNext]_vars

\* One router client at a time; a vision and a premium provider.
InitRouterSeq ==
    RouterInit(<<"llava", "anthropic">>, {1}) /\ BudgetIdle /\ CostInit /\ StreamIdle /\ BusInit
    /\ AlertIdle /\ ToolIdle /\ ShutdownIdle
    /\ VersionIdle
    /\ AbIdle
    /\ WaitIdle
    /\ AgentIdle
    /\ HealthIdle
    /\ QueryIdle
    /\ MetricsIdle
    /\ LoggerIdle
    /\ CoordIdle
    /\ LineageIdle
SpecRouterSeq == InitRouterSeq /\ [][RouterSeqNext]_vars

\* Concurrent router clients; one local provider.
InitRouterConc ==
    RouterInit(<<"ollama">>, Clients) /\ BudgetIdle /\ CostInit /\ StreamIdle /\ BusInit
    /\ AlertIdle /\ ToolIdle /\ ShutdownIdle
    /\ VersionIdle
    /\ AbIdle
    /\ WaitIdle
    /\ AgentIdle
    /\ HealthIdle
    /\ QueryIdle
    /\ MetricsIdle
    /\ LoggerIdle
    /\ CoordIdle
    /\ LineageIdle
SpecRouterConc == InitRouterConc /\ [][RouterConcNext]_vars

\* One router client at a time; a local and a premium provider, neither of
\* them privacy-compatible.
InitRouterPriv ==
    RouterInit(<<"jan", "anthropic">>, {1}) /\ BudgetIdle /\ CostInit /\ StreamIdle /\ BusInit
    /\ AlertIdle /\ ToolIdle /\ ShutdownIdle
    /\ VersionIdle
    /\ AbIdle
    /\ WaitIdle
    /\ AgentIdle
    /\ HealthIdle
    /\ QueryIdle
    /\ MetricsIdle
    /\ LoggerIdle
    /\ CoordIdle
    /\ LineageIdle
SpecRouterPriv == InitRouterPriv /\ [][RouterLocalNext]_vars

\* One router client at a time; two providers of the local tier.
InitRouterLocal ==
    RouterInit(<<"ollama", "jan">>, {1}) /\ BudgetIdle /\ CostInit /\ StreamIdle /\ BusInit
    /\ AlertIdle /\ ToolIdle /\ ShutdownIdle
    /\ VersionIdle
    /\ AbIdle
    /\ WaitIdle
    /\ AgentIdle
    /\ HealthIdle
    /\ QueryIdle
    /\ MetricsIdle
    /\ LoggerIdle
    /\ CoordIdle
    /\ LineageIdle
SpecRouterLocal == InitRouterLocal /\ [][RouterLocalNext]_vars

\* One stream of a StreamManager.
InitStream == StreamIdle /\ BudgetIdle /\ CostInit /\ RouterIdle /\ BusInit /\ AlertIdle /\ ToolIdle /\ ShutdownIdle
    /\ VersionIdle
    /\ AbIdle
    /\ WaitIdle
    /\ AgentIdle
    /\ HealthIdle
    /\ QueryIdle
    /\ MetricsIdle
    /\ LoggerIdle
    /\ CoordIdle
    /\ LineageIdle
SpecStream == InitStream /\ [][StreamNext]_vars

\* Publishers, subscribers and delivery tasks of one EventBus.
InitBus == BusInit /\ BudgetIdle /\ CostInit /\ RouterIdle /\ StreamIdle /\ AlertIdle /\ ToolIdle /\ ShutdownIdle
    /\ VersionIdle
    /\ AbIdle
    /\ WaitIdle
    /\ AgentIdle
    /\ HealthIdle
    /\ QueryIdle
    /\ MetricsIdle
    /\ LoggerIdle
    /\ CoordIdle
    /\ LineageIdle
SpecBus == InitBus /\ [][BusNext]_vars

\* Concurrent check_and_alert calls over the periods of one user.
InitAlert ==
    AlertIdle /\ BudgetIdle /\ CostInit /\ RouterIdle /\ StreamIdle /\ BusInit /\ ToolIdle
    /\ ShutdownIdle
    /\ VersionIdle
    /\ AbIdle
    /\ WaitIdle
    /\ AgentIdle
    /\ HealthIdle
    /\ QueryIdle
    /\ MetricsIdle
    /\ LoggerIdle
    /\ CoordIdle
    /\ LineageIdle
SpecAlert == InitAlert /\ [][AlertNext]_vars

\* Concurrent deduct_budget calls against an existing budget, and callers of
\* check_and_alert.
InitBudgetAlert ==
    /\ BudgetInit /\ CostInit /\ RouterIdle /\ StreamIdle /\ BusInit /\ ToolIdle /\ ShutdownIdle
    /\ alert_flags = [i \in 1..Len(Thresholds) |-> 0]
    /\ period_no = 1
    /\ period_left = AlertTtl
    /\ chk = [k \in Checkers |-> IdleCheck]
    /\ alerts = EmptyBag
    /\ VersionIdle
    /\ AbIdle
    /\ WaitIdle
    /\ AgentIdle
    /\ HealthIdle
    /\ QueryIdle
    /\ MetricsIdle
    /\ LoggerIdle
    /\ CoordIdle
    /\ LineageIdle
BudgetAlertNext == BudgetNext \/ ChecksNext({"k1"})
SpecBudgetAlert == InitBudgetAlert /\ [][BudgetAlertNext]_vars

\* Concurrent execute calls of one rate-limited tool.
InitTool ==
    ToolIdle /\ BudgetIdle /\ CostInit /\ RouterIdle /\ StreamIdle /\ BusInit /\ AlertIdle
    /\ ShutdownIdle
    /\ VersionIdle
    /\ AbIdle
    /\ WaitIdle
    /\ AgentIdle
    /\ HealthIdle
    /\ QueryIdle
    /\ MetricsIdle
    /\ LoggerIdle
    /\ CoordIdle
    /\ LineageIdle
SpecTool == InitTool /\ [][ToolNext]_vars

\* Shutdown triggered by two signals; three hooks.
InitShutdown ==
    /\ ShutdownInit /\ BudgetIdle /\ CostInit /\ RouterIdle /\ StreamIdle /\ BusInit
    /\ AlertIdle /\ ToolIdle
    /\ VersionIdle
    /\ AbIdle
    /\ WaitIdle
    /\ AgentIdle
    /\ HealthIdle
    /\ QueryIdle
    /\ MetricsIdle
    /\ LoggerIdle
    /\ CoordIdle
    /\ LineageIdle
SpecShutdown == InitShutdown /\ [][ShutdownNext]_vars

\* Concurrent callers of the version manager on one (workflow_id, version).
InitVersion ==
    /\ VersionIdle /\ BudgetIdle /\ CostInit /\ RouterIdle /\ StreamIdle /\ BusInit
    /\ AlertIdle /\ ToolIdle /\ ShutdownIdle
    /\ AbIdle
    /\ WaitIdle
    /\ AgentIdle
    /\ HealthIdle
    /\ QueryIdle
    /\ MetricsIdle
    /\ LoggerIdle
    /\ CoordIdle
    /\ LineageIdle
SpecVersion == InitVersion /\ [][VersionNext]_vars

\* Concurrent assign_variant calls on one running experiment.
InitAb ==
    /\ AbIdle /\ VersionIdle /\ BudgetIdle /\ CostInit /\ RouterIdle /\ StreamIdle
    /\ BusInit /\ AlertIdle /\ ToolIdle /\ ShutdownIdle
    /\ WaitIdle
    /\ AgentIdle
    /\ HealthIdle
    /\ QueryIdle
    /\ MetricsIdle
    /\ LoggerIdle
    /\ CoordIdle
    /\ LineageIdle
SpecAb == InitAb /\ [][AbNext]_vars

\* The coordinator waits for a result while the agents publish.
InitWait ==
    /\ WaitIdle /\ AbIdle /\ VersionIdle /\ BudgetIdle /\ CostInit /\ RouterIdle
    /\ StreamIdle /\ BusInit /\ AlertIdle /\ ToolIdle /\ ShutdownIdle
    /\ AgentIdle
    /\ HealthIdle
    /\ QueryIdle
    /\ MetricsIdle
    /\ LoggerIdle
    /\ CoordIdle
    /\ LineageIdle
SpecWait == InitWait /\ [][WaitNext]_vars

\* One agent and the handlers of the assignments delivered to it.
InitAgent ==
    /\ AgentIdle /\ WaitIdle /\ AbIdle /\ VersionIdle /\ BudgetIdle /\ CostInit
    /\ RouterIdle /\ StreamIdle /\ BusInit /\ AlertIdle /\ ToolIdle /\ ShutdownIdle
    /\ HealthIdle
    /\ QueryIdle
    /\ MetricsIdle
    /\ LoggerIdle
    /\ CoordIdle
    /\ LineageIdle
SpecAgent == InitAgent /\ [][AgentNext]_vars

\* Concurrent callers of _check_health on two providers.
InitHealth ==
    /\ RouterInit(HealthProviders, {}) /\ HealthIdle /\ BudgetIdle /\ CostInit /\ StreamIdle
    /\ BusInit /\ AlertIdle /\ ToolIdle /\ ShutdownIdle /\ VersionIdle /\ AbIdle /\ WaitIdle
    /\ AgentIdle
    /\ QueryIdle
    /\ MetricsIdle
    /\ LoggerIdle
    /\ CoordIdle
    /\ LineageIdle
SpecHealth == InitHealth /\ [][HealthNext]_vars

\* Queries of the history between the publishes of the agents.
InitQuery ==
    /\ QueryIdle /\ BusInit /\ BudgetIdle /\ CostInit /\ RouterIdle /\ StreamIdle /\ AlertIdle
    /\ ToolIdle /\ ShutdownIdle /\ VersionIdle /\ AbIdle /\ WaitIdle /\ AgentIdle /\ HealthIdle
    /\ MetricsIdle
    /\ LoggerIdle
    /\ CoordIdle
    /\ LineageIdle
SpecQuery == InitQuery /\ [][QueryNext]_vars

\* Callers that record impressions, successes and failures of one variant.
InitMetrics ==
    /\ MetricsIdle /\ QueryIdle /\ BusInit /\ BudgetIdle /\ CostInit /\ RouterIdle
    /\ StreamIdle /\ AlertIdle /\ ToolIdle /\ ShutdownIdle /\ VersionIdle /\ AbIdle
    /\ WaitIdle /\ AgentIdle /\ HealthIdle
    /\ LoggerIdle
    /\ CoordIdle
    /\ LineageIdle
SpecMetrics == InitMetrics /\ [][MetricsNext]_vars

\* The logger with two callers; the event loop runs every call that can
\* go on.
InitLogger ==
    /\ BudgetIdle
    /\ CostInit
    /\ RouterIdle
    /\ StreamIdle
    /\ BusInit
    /\ AlertIdle
    /\ ToolIdle
    /\ ShutdownIdle
    /\ VersionIdle
    /\ AbIdle
    /\ WaitIdle
    /\ AgentIdle
    /\ HealthIdle
    /\ QueryIdle
    /\ MetricsIdle
    /\ LoggerIdle
    /\ CoordIdle
    /\ LineageIdle
SpecLogger ==
    /\ InitLogger
    /\ [][LoggerNext]_vars
    /\ \A c \in LogCallers : WF_vars(LoggerStep(c))

\* The coordinator with two agents and two concurrent assign_task calls.
InitCoord ==
    /\ BudgetIdle
    /\ CostInit
    /\ RouterIdle
    /\ StreamIdle
    /\ BusInit
    /\ AlertIdle
    /\ ToolIdle
    /\ ShutdownIdle
    /\ VersionIdle
    /\ AbIdle
    /\ WaitIdle
    /\ AgentIdle
    /\ HealthIdle
    /\ QueryIdle
    /\ MetricsIdle
    /\ LoggerIdle
    /\ CoordIdle
    /\ LineageIdle
SpecCoord == InitCoord /\ [][CoordNext]_vars

\* One workflow, no version yet; the versioning calls are made in sequence.
InitLineage ==
    /\ BudgetIdle
    /\ CostInit
    /\ RouterIdle
    /\ StreamIdle
    /\ BusInit
    /\ AlertIdle
    /\ ToolIdle
    /\ ShutdownIdle
    /\ VersionIdle
    /\ AbIdle
    /\ WaitIdle
    /\ AgentIdle
    /\ HealthIdle
    /\ QueryIdle
    /\ MetricsIdle
    /\ LoggerIdle
    /\ CoordIdle
    /\ LineageIdle
SpecLineage == InitLineage /\ [][LineageNext]_vars

\* The whole system: every component, all clients.
Init ==
    /\ BudgetEmptyInit /\ CostInit /\ StreamIdle /\ BusInit /\ AlertIdle /\ ToolIdle /\ ShutdownIdle
    /\ RouterInit(<<"ollama", "jan", "llava", "anthropic">>, Clients)
    /\ VersionIdle
    /\ AbIdle
    /\ WaitIdle
    /\ AgentIdle
    /\ HealthIdle
    /\ QueryIdle
    /\ MetricsIdle
    /\ LoggerIdle
    /\ CoordIdle
    /\ LineageIdle
Next == BudgetCreateNext \/ CostNext \/ RouterSeqNext \/ RouterConcNext \/ RouterLocalNext
        \/ StreamNext \/ BusNext \/ AlertNext \/ ToolNext \/ ShutdownNext
        \/ VersionNext \/ AbNext \/ WaitNext \/ AgentNext \/ HealthNext \/ QueryNext \/ MetricsNext \/ LoggerNext \/ CoordNext \/ LineageNext
Spec == Init /\ [][Next]_vars

-----------------------------------------------------------------------------
(* Properties of the budget enforcer.                                      *)

RECURSIVE SumCost(_)
SumCost(S) ==
    IF S = {} THEN 0
    ELSE LET d == CHOOSE x \in S : TRUE IN dcost[d] + SumCost(S \ {d})

Succeeded == {d \in Deductors : dpc[d] = "done"}
Rejected  == {d \in Deductors : dpc[d] = "exceeded"}
AllReturned == \A d \in Deductors : dpc[d] \in {"done", "exceeded"}
Min(a, b) == IF a <= b THEN a ELSE b

\* C1: for concurrent deduct_budget calls against a budget with limit L > 0 and
\* spend starting at 0, the costs of the calls that succeeded sum to at most L,
\* and the stored spend is exactly that sum: a rejected call (at any point of
\* its execution) has not changed the spend.
C1_BudgetSafety ==
    /\ SumCost(Succeeded) <= limit
    /\ spend = SumCost(Succeeded)

\* C1 witness: one call has succeeded, another was rejected, the budget is used up.
C1_Witness ==
    /\ Succeeded # {}
    /\ Rejected # {}
    /\ spend = limit

\* C2 (as claimed): whenever a deduct_budget succeeds while a limit is set, the
\* stored spend is at most the stored limit right after it, also when
\* create_budget calls run concurrently.
C2_SpendWithinLimitAfterDeduct ==
    [][\A d \in Deductors :
          (dpc[d] = "exec" /\ dpc'[d] = "done") => (limit' > 0 => spend' <= limit')]_vars

\* C3: when K concurrent calls of equal cost c have all returned, exactly
\* min(K, floor(L / c)) of them succeeded, the others were rejected, and the
\* stored spend is (number of successes) * c.
C3_EqualCostLinearizable ==
    (AllReturned /\ \A d \in Deductors : dcost[d] = dcost[1]) =>
        /\ Cardinality(Succeeded) = Min(NumDeduct, limit \div dcost[1])
        /\ Cardinality(Rejected) = NumDeduct - Cardinality(Succeeded)
        /\ spend = Cardinality(Succeeded) * dcost[1]

\* C3 witness: equal costs, all returned, some succeeded and some were rejected.
C3_Witness ==
    /\ AllReturned
    /\ \A d \in Deductors : dcost[d] = dcost[1]
    /\ Succeeded # {}
    /\ Rejected # {}

-----------------------------------------------------------------------------
(* Properties of the cost tracker.                                         *)

Accepted == {c \in Trackers : tcall[c].made /\ tcall[c].ok}
AllTracked == \A c \in Trackers : tcall[c].made

RECURSIVE SumTracked(_)
SumTracked(S) ==
    IF S = {} THEN 0
    ELSE LET c == CHOOSE x \in S : TRUE IN tcall[c].cost + SumTracked(S \ {c})

ForUser(p, u) == {c \in Accepted : tcall[c].period = p /\ tcall[c].user = u}
ForTier(p, t) == {c \in Accepted : tcall[c].period = p /\ tcall[c].tier = t}
ForPeriod(p)  == {c \in Accepted : tcall[c].period = p}

\* C4 (as claimed): once all concurrent track_cost calls have completed, the
\* per-user, the per-tier and the global counter of the period have each risen
\* by exactly the sum of the costs of the calls made for that user, tier and
\* period.
C4_NoLostUpdates ==
    AllTracked =>
        \A p \in PeriodInputs :
            /\ \A u \in UserIds : kv[UserKey(p, u)] = SumTracked(ForUser(p, u))
            /\ \A t \in TierInputs : kv[TierKey(p, t)] = SumTracked(ForTier(p, t))
            /\ kv[GlobalKey(p)] = SumTracked(ForPeriod(p))

\* The counters are exact for calls whose user id is no reserved key segment.
C4_NoLostUpdatesDistinctKeys ==
    (AllTracked /\ \A c \in Accepted : tcall[c].user # "total") =>
        \A p \in PeriodInputs :
            /\ \A u \in UserIds \ {"total"} : kv[UserKey(p, u)] = SumTracked(ForUser(p, u))
            /\ \A t \in TierInputs : kv[TierKey(p, t)] = SumTracked(ForTier(p, t))
            /\ kv[GlobalKey(p)] = SumTracked(ForPeriod(p))

-----------------------------------------------------------------------------
(* Properties of the provider router.                                      *)

Reqs == DOMAIN req
Registered == DOMAIN circuit_breakers
IsDone(r) == req[r].pc = "done"
IsPrefix(a, b) == Len(a) <= Len(b) /\ SubSeq(b, 1, Len(a)) = a

\* This step starts a completion of provider p on behalf of request r.
Invokes(r, p) ==
    /\ Len(req'[r].invoked) > Len(req[r].invoked)
    /\ req'[r].invoked[Len(req'[r].invoked)] = p

\* This step is the call of chat_completion or stream_completion by client r.
Starts(r) == req[r].pc = "idle" /\ req'[r].pc # "idle"

\* No completion is started on a provider whose breaker is open and whose
\* cool-off has not elapsed.
NoInvokeWhileBlocked ==
    \A r \in Reqs, p \in Registered : Invokes(r, p) => ~Blocked(circuit_breakers[p])

\* C5 (as claimed): once a provider's breaker is open, no chat or stream
\* completion of that provider is started until now - last_failure >= T, in
\* any interleaving of concurrent requests.
C5_NoInvokeWhileOpen == [][NoInvokeWhileBlocked]_vars

\* The N-th failure in a row (no success in between) opens the breaker.
NthFailureOpens ==
    \A p \in Registered :
        (streak[p] < Threshold /\ streak'[p] >= Threshold) => circuit_breakers'[p].is_open

\* A request made while every provider of its tiers is inside its cool-off
\* fails at once with "all providers failed" and invokes nothing.
BlockedRequestFails ==
    \A r \in Reqs :
        (/\ Starts(r)
         /\ req'[r].kind = "chat"
         /\ \A p \in Registered :
               Config[p].tier \in SeqToSet(req'[r].tiers_to_try) => Blocked(circuit_breakers[p]))
        => (IsDone(r)' /\ req'[r].outcome = "failed" /\ req'[r].invoked = <<>>)

\* A request made after the cool-off for the tier of an open provider selects
\* that provider as a candidate again.
ExpiredIsCandidate ==
    \A r \in Reqs, p \in Registered :
        (/\ Starts(r)
         /\ circuit_breakers[p].is_open /\ ~Blocked(circuit_breakers[p])
         /\ Matches(p, req'[r].tier, "m", req'[r].privacy))
        => p \in req'[r].seen

\* A request invokes a provider at most once, and exactly once when the provider
\* was a candidate that passed the health gate and no earlier candidate served.
InvokedOnce ==
    \A r \in Reqs, p \in Registered :
        /\ Count(p, req[r].invoked) <= 1
        /\ (/\ IsDone(r) /\ req[r].kind = "chat"
            /\ p \in req[r].seen /\ p \notin req[r].skipped
            /\ (req[r].outcome = "failed" \/ req[r].served = p))
           => Count(p, req[r].invoked) = 1

Succeeds(r) ==
    /\ req[r].pc \in {"call", "stream"}
    /\ req'[r].pc = "done"
    /\ req'[r].outcome = "ok"

\* C7 (as claimed): right after any successful completion by a provider its
\* failure count is 0 and its breaker is closed, in every interleaving.
C7_SuccessClosesBreaker ==
    [][\A r \in Reqs :
          Succeeds(r) =>
              /\ circuit_breakers'[req'[r].served].failure_count = 0
              /\ ~circuit_breakers'[req'[r].served].is_open]_vars

\* The chain the claim describes: requested, requested + 1, PREMIUM, with
\* PREMIUM at most once.
RECURSIVE DropLaterPremium(_, _)
DropLaterPremium(q, had) ==
    IF q = <<>> THEN <<>>
    ELSE IF Head(q) = PREMIUM /\ had THEN DropLaterPremium(Tail(q), had)
         ELSE <<Head(q)>> \o DropLaterPremium(Tail(q), had \/ Head(q) = PREMIUM)

ClaimedChain(tier, failover) ==
    IF ~failover THEN <<tier>>
    ELSE DropLaterPremium(
           <<tier>> \o (IF tier + 1 \in Tiers THEN <<tier + 1>> ELSE <<>>) \o <<PREMIUM>>, FALSE)

\* C8 (as claimed): with failover a chat request tries the tiers requested,
\* requested + 1, PREMIUM in this order, PREMIUM at most once, for every
\* requested tier; without failover only the requested tier.
C8_ChainAsClaimed ==
    \A r \in Reqs :
        (req[r].pc # "idle" /\ req[r].kind = "chat") =>
            /\ req[r].tiers_to_try = ClaimedChain(req[r].tier, req[r].failover)
            /\ IsPrefix(req[r].visited, req[r].tiers_to_try)

\* The chain of the code, tier by tier.
CodeChain(tier, failover) ==
    IF ~failover THEN <<tier>>
    ELSE CASE tier = LOCAL_FREE  -> <<LOCAL_FREE, CLOUD_CHEAP, PREMIUM>>
           [] tier = CLOUD_CHEAP -> <<CLOUD_CHEAP, VISION, PREMIUM>>
           [] tier = VISION      -> <<VISION, PREMIUM>>
           [] tier = PREMIUM     -> <<PREMIUM>>
           [] tier = BATCH       -> <<BATCH, PREMIUM>>

\* C8 (amended): requested + 1 is tried only for a requested tier below
\* PREMIUM; the tiers are visited in the order of the chain, all of them
\* before the request fails.
C8_FailoverChain ==
    \A r \in Reqs :
        (req[r].pc # "idle" /\ req[r].kind = "chat") =>
            /\ req[r].tiers_to_try = CodeChain(req[r].tier, req[r].failover)
            /\ IsPrefix(req[r].visited, req[r].tiers_to_try)
            /\ (req[r].outcome = "failed" => req[r].visited = req[r].tiers_to_try)

\* C8 witness: a PREMIUM request with failover has failed after trying PREMIUM only.
C8_Witness ==
    /\ IsDone(1) /\ req[1].failover /\ req[1].tier = PREMIUM
    /\ req[1].outcome = "failed"
    /\ req[1].visited = <<PREMIUM>>
    /\ req[1].invoked = <<"anthropic">>

FailedWithFailover(r) ==
    IsDone(r) /\ req[r].kind = "chat" /\ req[r].failover /\ req[r].outcome = "failed"

\* Every candidate of the tiers a failed request visited was attempted: invoked,
\* unless its health gate turned it down; a registered provider of a visited
\* tier that was no candidate has an open breaker.
CandidatesAttempted(r) ==
    /\ req[r].seen = SeqToSet(req[r].invoked) \cup req[r].skipped
    /\ \A p \in Registered :
          (/\ Config[p].tier \in SeqToSet(req[r].visited)
           /\ Matches(p, Config[p].tier, "m", req[r].privacy)
           /\ p \notin req[r].seen)
          => circuit_breakers[p].is_open

\* C9 (as claimed): a chat request with failover that reports failure has
\* attempted the candidates of each tier higher than the requested one, up to
\* and including PREMIUM.
C9_EachHigherTier ==
    \A r \in Reqs :
        FailedWithFailover(r) =>
            /\ \A t \in Tiers :
                  (req[r].tier < t /\ t <= PREMIUM) => t \in SeqToSet(req[r].visited)
            /\ CandidatesAttempted(r)

\* C9 (amended): it has attempted the candidates of the next tier (when the
\* requested tier is below PREMIUM) and of PREMIUM, not of the tiers in between.
C9_NextTierAndPremium ==
    \A r \in Reqs :
        FailedWithFailover(r) =>
            /\ PREMIUM \in SeqToSet(req[r].visited)
            /\ (req[r].tier < PREMIUM => (req[r].tier + 1) \in SeqToSet(req[r].visited))
            /\ CandidatesAttempted(r)

\* C9 witness: a CLOUD_CHEAP request found no candidate, tried the VISION
\* provider and then the PREMIUM provider, and failed.
C9_Witness ==
    /\ FailedWithFailover(1)
    /\ req[1].tier = CLOUD_CHEAP
    /\ req[1].invoked = <<"llava", "anthropic">>

ServedTier(r) == Config[req[r].served].tier

C11_PrivacyFilter ==
    \A r \in Reqs :
        req[r].privacy =>
            \A p \in req[r].probed \cup SeqToSet(req[r].invoked) \cup req[r].seen :
                Config[p].privacy_compatible

\* C11 witness: a chat request in privacy mode went through its whole failover
\* chain and failed without touching the two registered providers, both of
\* which were selectable (breaker closed) but not privacy-compatible.
C11_Witness ==
    /\ IsDone(1) /\ req[1].kind = "chat" /\ req[1].privacy /\ req[1].failover
    /\ req[1].visited = <<LOCAL_FREE, CLOUD_CHEAP, PREMIUM>>
    /\ req[1].outcome = "failed"
    /\ req[1].probed = {} /\ req[1].invoked = <<>>
    /\ \A p \in Registered :
          /\ ~circuit_breakers[p].is_open
          /\ circuit_breakers[p].is_healthy
          /\ HealthFresh(circuit_breakers[p])

\* The providers whose chunks the caller of a stream has received.
Sources(r) == SeqToSet(req[r].delivered)

\* C12 (as claimed): once a chunk of a provider has been delivered, a failure of
\* that provider ends the stream with the failure and starts no other
\* candidate; a stream never carries chunks of two providers.
C12_NoRestartMidStream ==
    [][\A r \in Reqs :
          /\ (/\ req[r].pc = "stream"
              /\ req[r].delivered # <<>>
              /\ req'[r].pc # "stream" /\ req'[r].outcome # "ok")
             => (IsDone(r)' /\ req'[r].outcome = "failed"
                 /\ req'[r].invoked = req[r].invoked
                 /\ req'[r].probed = req[r].probed)
          /\ Cardinality(Sources(r)') <= 1]_vars

-----------------------------------------------------------------------------
(* Properties of the stream manager.                                       *)

Contents(chs) == [i \in 1..Len(chs) |-> chs[i].content]

RECURSIVE Concat(_)
Concat(texts) == IF texts = <<>> THEN <<>> ELSE Head(texts) \o Concat(Tail(texts))

\* C13: the chunks given to the caller are a prefix of the driver's chunks in
\* the same order, numbered 0, 1, 2, ...; the result of the stream, whatever
\* the termination reason, lists these chunks and its full_content is the
\* concatenation of their contents.
C13_StreamOrder ==
    /\ IsPrefix(Contents(stream.emitted), stream.driver)
    /\ \A i \in 1..Len(stream.emitted) : stream.emitted[i].chunk_index = i - 1
    /\ stream.result.made =>
          /\ stream.result.chunks = stream.emitted
          /\ stream.result.full_content = Concat(Contents(stream.emitted))
          /\ stream.result.termination_reason \in
                {"complete", "early_stop", "quality_threshold", "timeout", "error",
                 "user_cancelled"}

\* C13 witness: a stream ended by the timeout after two different chunks, with
\* more chunks left in the driver.
C13_Witness ==
    /\ stream.result.made
    /\ stream.result.termination_reason = "timeout"
    /\ Len(stream.emitted) = 2
    /\ stream.emitted[1].content # stream.emitted[2].content
    /\ Len(stream.driver) > 2

\* A configured stop sequence is in the text.
StopIn(text) == \E seq \in stream.stop_sequences : Contains(seq, text)

\* C14: the chunk that completes a configured stop sequence in the accumulated
\* text, within a chunk or across chunks, is delivered; after it no chunk is
\* delivered and the stream ends, with reason early_stop when the caller asks
\* for the next chunk.
C14_EarlyStop ==
    [][/\ (~StopIn(stream.accumulated_text) /\ StopIn(stream'.accumulated_text))
          => /\ stream'.emitted = Append(stream.emitted, stream'.chunks[Len(stream'.chunks)])
             /\ stream'.accumulated_text =
                   stream.accumulated_text \o stream.driver[Len(stream.emitted) + 1]
       /\ StopIn(stream.accumulated_text)
          => /\ stream.pc \in {"yielded", "done"}
             /\ stream'.pc # "await"
             /\ stream'.emitted = stream.emitted \/ stream'.pc = "idle"
       /\ (stream'.result.made /\ StopIn(stream'.result.full_content) /\ ~stream'.closed)
          => stream'.result.termination_reason = "early_stop"]_vars

\* C14 witness: the stop sequence was completed across two chunks, the second
\* of them was delivered, the driver's next chunk was not, and the stream
\* ended with early_stop.
C14_Witness ==
    /\ stream.result.made
    /\ stream.result.termination_reason = "early_stop"
    /\ Len(stream.emitted) < Len(stream.driver)
    /\ \A i \in 1..Len(stream.emitted) : ~Contains(StopSeq, stream.emitted[i].content)
    /\ Contains(StopSeq, stream.result.full_content)

-----------------------------------------------------------------------------
(* Properties of the event bus.                                            *)

\* How often the callback of subscription i of the agent was invoked with
\* the message id.
CallCount(agent, i, id) == CopiesIn([agent |-> agent, sub |-> i, id |-> id], calls)

\* C15: for every publish, directed or broadcast, no callback subscribed under
\* the sender's agent id is invoked with the message.
C15_NoSelfDelivery ==
    /\ \A c \in BagToSet(calls) : published[c.id].sender # c.agent
    /\ \A k \in 1..Len(ready) : published[ready[k].id].sender # ready[k].agent

\* C15 witness: a broadcast of planner, who is subscribed, has been delivered
\* to coder only and publish has returned.
C15_Witness ==
    \E p \in Publishers :
        /\ pub[p].pc = "returned"
        /\ published[pub[p].id].sender = "planner"
        /\ published[pub[p].id].recipient = Broadcast
        /\ pub[p].created = <<[pub |-> p, agent |-> "coder", sub |-> 1, id |-> pub[p].id]>>
        /\ pub[p].subs_at = 0
        /\ "planner" \in DOMAIN subscribers
        /\ Len(published) = 1
        /\ calls = SetToBag({[agent |-> "coder", sub |-> 1, id |-> 1]})

\* The subscriptions a message is for: those of its recipient (of every agent
\* for a broadcast) other than the sender, whose filter admits its type.
Targets(m, subs) ==
    {t \in (DOMAIN subs) \X (1..MaxSubs) :
        /\ t[2] <= Len(subs[t[1]])
        /\ t[1] # m.sender
        /\ (m.recipient = Broadcast \/ m.recipient = t[1])
        /\ (subs[t[1]][t[2]] = {} \/ m.type \in subs[t[1]][t[2]])}

\* This step is the call of publish by p.
Publishes(p) == pub[p].pc = "idle" /\ pub'[p].pc # "idle"

\* The delivery tasks publish has created are one for each target.
OneTaskPerTarget(p) ==
    LET m == published'[pub'[p].id]
        created == pub'[p].created
    IN  /\ {<<created[k].agent, created[k].sub>> : k \in 1..Len(created)} = Targets(m, subscribers)
        /\ Len(created) = Cardinality(Targets(m, subscribers))

\* When publish has returned, the callback of each task it created was invoked
\* once with the message, and no other callback was; before that no callback
\* is invoked twice.
DeliveredOnReturn ==
    \A p \in Publishers :
        LET created == pub[p].created
            made == {c \in BagToSet(calls) : c.id = pub[p].id}
        IN  pub[p].pc # "idle" =>
              /\ \A c \in made :
                    /\ \E j \in 1..Len(created) :
                          created[j].agent = c.agent /\ created[j].sub = c.sub
                    /\ CallCount(c.agent, c.sub, c.id) = 1
              /\ pub[p].pc = "returned" =>
                    \A j \in 1..Len(created) :
                        CallCount(created[j].agent, created[j].sub, pub[p].id) = 1

\* C16 (as claimed): for a publish of m to a subscribed recipient R other
\* than the sender, R's callback (each of them) has been invoked with m exactly
\* once when publish returns.
C16_DeliveryAsClaimed ==
    \A p \in Publishers :
        LET m == published[pub[p].id]
        IN  (/\ pub[p].pc = "returned"
             /\ m.recipient # Broadcast /\ m.recipient # m.sender
             /\ pub[p].subs_at > 0)
            => \A i \in 1..pub[p].subs_at : CallCount(m.recipient, i, m.id) = 1

\* C16 (amended): ... each callback R subscribed without a message-type filter,
\* or with a filter that holds the type of m, has been invoked with m exactly
\* once when publish returns; a callback whose filter leaves out the type of m
\* is not invoked.
C16_Delivery ==
    [][(\A p \in Publishers : Publishes(p) => OneTaskPerTarget(p)) /\ DeliveredOnReturn']_vars

\* C16 witness: a task_result for coder, whose only subscription filters on
\* task_assignment, has been published and publish returned without a call;
\* before it a task_assignment for coder was delivered once.
C16_Witness ==
    /\ Len(published) = 2
    /\ published[1].type = "task_assignment" /\ published[1].recipient = "coder"
    /\ published[1].sender = "planner"
    /\ published[2].type = "task_result" /\ published[2].recipient = "coder"
    /\ published[2].sender = "planner"
    /\ "coder" \in DOMAIN subscribers /\ subscribers["coder"] = <<{"task_assignment"}>>
    /\ calls = SetToBag({[agent |-> "coder", sub |-> 1, id |-> 1]})
    /\ \E p \in Publishers : pub[p].pc = "returned" /\ pub[p].id = 2 /\ pub[p].subs_at = 1
    /\ \E p \in Publishers : pub[p].pc = "returned" /\ pub[p].id = 1 /\ pub[p].subs_at = 1

-----------------------------------------------------------------------------
(* Properties of the alert manager.                                        *)

\* How often the alert callback was invoked for threshold t in period p.
AlertCount(t, p) == CopiesIn([threshold |-> t, period |-> p], alerts)

\* C18: within a single period, for each threshold (80, 90, 95 %) the alert
\* callback is invoked at most once for that threshold, in any interleaving of
\* concurrent threshold checks.
C18_AlertOnce ==
    \A i \in 1..Len(Thresholds), p \in 1..MaxPeriods : AlertCount(Thresholds[i], p) <= 1

\* C18 witness: in the second period two concurrent checks have crossed the
\* 80 % threshold; the first one calls the callback, the second one was
\* refused the flag and goes on to 90 %.
C18_Witness ==
    /\ period_no = 2 /\ period_left > 0
    /\ AlertCount(80, 2) = 1
    /\ chk["k1"].pc = "callback" /\ chk["k1"].i = 1
    /\ chk["k2"].pc = "set" /\ chk["k2"].i = 2
    /\ alert_flags[2] = 0

\* This step is the successful return of a deduct_budget that brings the
\* utilization to or above the i-th threshold for the first time.
DeductCrosses(d, i) ==
    /\ dpc[d] = "exec" /\ dpc'[d] = "done"
    /\ ~Crossed(spend, limit, i)
    /\ Crossed(spend', limit, i)
    /\ alert_flags[i] = 0

\* C19: after a successful deduct_budget that brings the utilization to or
\* above an alert threshold for the first time in the period, the alert
\* callback has been invoked for that threshold; a later deduct that crosses
\* no further threshold does not invoke it again.
C19_AlertOnDeduct ==
    [][\A d \in Deductors :
          /\ \A i \in 1..Len(Thresholds) :
                DeductCrosses(d, i) => AlertCount(Thresholds[i], CurrentPeriod)' = 1
          /\ (dpc[d] = "exec" /\ dpc'[d] = "done"
              /\ \A i \in 1..Len(Thresholds) : ~DeductCrosses(d, i)) => alerts' = alerts]_vars

-----------------------------------------------------------------------------
(* Properties of the tool registry.                                        *)

Distance(a, b) == IF a >= b THEN a - b ELSE b - a

\* Two successful executions are separated when their starts or their returns
\* are at least 60 / r apart.
Separated(e1, e2) ==
    \/ Distance(e1.started, e2.started) >= MinInterval
    \/ Distance(e1.finished, e2.finished) >= MinInterval

\* C20: any two successful executions of a tool with rate limit r are
\* separated by at least 60 / r seconds, regardless of caller and including
\* executions issued concurrently.
C20_RateLimit ==
    \A e1 \in successes, e2 \in successes : e1 # e2 => Separated(e1, e2)

\* The time the invoker of caller c has been running.
Elapsed(c) == now - texec[c].started

\* C21: execute never waits for the invoker, synchronous or asynchronous,
\* beyond the tool's timeout, and a result returned after the timeout is the
\* timeout failure.
C21_TimeoutHonored ==
    /\ \A c \in ToolCallers :
          texec[c].pc \in {"handler", "blocking"} => Elapsed(c) <= ToolTimeout
    /\ \A e \in successes : e.finished - e.started <= ToolTimeout

-----------------------------------------------------------------------------
(* Properties of the shutdown manager.                                     *)

\* The callback of hook h is executing.
CallbackRunning(h) == hook_task[h].status = "running" \/ hook_task[h].in_thread

\* Hook h is over: its task is done and its callback no longer executes.
HookOver(h) == hook_task[h].status \in Finished /\ ~CallbackRunning(h)

\* C22 (as claimed): the phases are executed in order: no hook of a later
\* phase starts before every hook of each earlier phase has finished or that
\* earlier phase has timed out.
C22_PhaseOrder ==
    \A h1 \in HookNames, h2 \in HookNames :
        (hooks[h1].phase < hooks[h2].phase /\ hook_task[h2].runs > 0)
        => (HookOver(h1) \/ hooks[h1].phase \in phase_timeouts)

\* C22 (amended): no hook of a later phase starts before the task of every
\* hook of each earlier phase has ended (its callback returned or raised, or
\* the hook or its phase timed out); the plain-function callback of a hook
\* that timed out may still execute in its thread.
C22_TaskOrder ==
    \A h1 \in HookNames, h2 \in HookNames :
        (hooks[h1].phase < hooks[h2].phase /\ hook_task[h2].runs > 0)
        => /\ hook_task[h1].runs = 1
           /\ hook_task[h1].status \in Finished
           /\ hook_task[h1].in_thread =>
                 (~hooks[h1].is_coroutine /\ hook_task[h1].status \in {"timed_out", "cancelled"})

\* C22 witness: hook a, a plain function of the phase of b, timed out before
\* the phase did and still executes in its thread; b completed, and the hook
\* of the next phase runs.
C22_Witness ==
    /\ hooks["a"].phase = hooks["b"].phase
    /\ hook_task["a"].status = "timed_out" /\ hook_task["a"].in_thread
    /\ hook_task["b"].status = "completed"
    /\ phase_timeouts = {}
    /\ hook_task["c"].status = "running"

\* C23: if a critical hook fails (raises or times out), no hook of any later
\* phase runs.
C23_CriticalAborts ==
    \A h1 \in HookNames, h2 \in HookNames :
        (/\ hooks[h1].phase < hooks[h2].phase
         /\ hooks[h1].critical
         /\ hook_task[h1].status \in {"failed", "timed_out"})
        => hook_task[h2].runs = 0

\* C24: however many times shutdown is triggered, the phase sequence runs
\* once: one call at most executes phases and every hook is executed at most
\* once.
C24_RunsOnce ==
    /\ \A h \in HookNames : hook_task[h].runs <= 1
    /\ \A t1 \in Triggers, t2 \in Triggers :
          (sd[t1].pc \in {"phase", "done"} /\ sd[t2].pc \in {"phase", "done"}) => t1 = t2

\* C24 witness: the second signal arrived while the first shutdown was
\* executing a phase, and its call returned; the sequence went on to the
\* hook of the last phase.
C24_Witness ==
    /\ \E t \in Triggers : sd[t].pc = "returned"
    /\ \E t \in Triggers : sd[t].pc = "phase"
    /\ hook_task["a"].runs = 1 /\ hook_task["b"].runs = 1
    /\ hook_task["c"].status = "running"

-----------------------------------------------------------------------------
(* Properties of the version manager.                                      *)

\* C25: a fetch of the version returns workflow data whose checksum equals the
\* checksum stored when the version was first created, after any interleaving
\* of create_version, set_active_version and deprecate_version calls.
C25_VersionImmutable ==
    \A w \in VersionCallers :
        vm[w].fetched.found =>
            /\ calculate_checksum(vm[w].fetched.workflow_data) = first_checksum
            /\ vm[w].fetched.checksum = first_checksum

-----------------------------------------------------------------------------
(* Properties of the A/B testing manager.                                  *)

\* C26: once a sticky assign_variant call has returned a variant for a user,
\* every sticky call for that user that starts later returns the same variant,
\* also when the user's first calls ran concurrently.
C26_StickyAssignment ==
    \A t \in AbTasks :
        abt[t].last.made /\ abt[t].last.sticky =>
            \A v \in abt[t].last.after : v = abt[t].last.variant

-----------------------------------------------------------------------------
(* Properties of wait_for_result.                                          *)

\* The message is a TaskResult of the agent the call waits for.
FromAgent(m, agent_id) == m.type = "task_result" /\ m.sender = agent_id

\* The results of the agent among the messages k+1..n published so far.
ResultsIn(agent_id, k, n) ==
    {i \in (k + 1)..n : i <= Len(published) /\ FromAgent(published[i], agent_id)}

-----------------------------------------------------------------------------
(* Properties of the agent's status.                                       *)

\* The moves of the status the specification allows.
StatusMoves ==
    {<<"idle", "thinking">>, <<"thinking", "executing">>, <<"executing", "thinking">>,
     <<"thinking", "idle">>}

\* C28: the status of an agent changes only along idle -> thinking ->
\* executing -> thinking -> idle, it is executing only during a tool call, and
\* it is idle when no handler is running.
C28_StatusPath ==
    /\ [][state_status' # state_status => <<state_status, state_status'>> \in StatusMoves]_vars
    /\ [](state_status = "executing" => \E h \in Handlers : ah[h].pc = "tool")
    /\ []((\A h \in Handlers : ah[h].pc = "idle") => state_status = "idle")

-----------------------------------------------------------------------------
(* Properties of the circuit breaker after its cool-off.                   *)

\* A request made now would be given the provider as a candidate.
Permitted(n) ==
    \E i \in 1..Len(Candidates(providers, circuit_breakers, Config[n].tier, "m", FALSE)) :
        Candidates(providers, circuit_breakers, Config[n].tier, "m", FALSE)[i] = n

\* C29: a provider whose breaker has opened and whose attempts have all failed
\* since, the one permitted after the cool-off included, is not a candidate of
\* the next request until the cool-off has elapsed since its last failure.
C29_FailedAttemptStaysOpen ==
    \A n \in DOMAIN circuit_breakers :
        streak[n] = Threshold /\ circuit_breakers[n].fail_age < CoolOff => ~Permitted(n)

-----------------------------------------------------------------------------
(* Termination of deduct_budget.                                           *)

Returned(d) == dpc[d] \in {"done", "exceeded"}

\* C30: with the calls of the deductors on one spend key and no other writer,
\* every deduct_budget call eventually returns, with success or with
\* BudgetExceededError.
C30_DeductReturns == <>(\A d \in Deductors : Returned(d))

\* A call has returned and another one, which had read the spend, is at the
\* head of the loop again after a WatchError.
C30_Witness ==
    /\ \E d \in Deductors : dpc[d] = "done"
    /\ \E d \in Deductors : dpc[d] = "watch" /\ dirty[d] /\ dcurrent[d] > 0

-----------------------------------------------------------------------------
(* Properties of the health cache.                                         *)

\* C31: a probe of a provider is started only when the health-check interval
\* has elapsed since the end of the last probe of that provider, whatever the
\* outcome of that probe was.
C31_ProbeOnlyAfterInterval ==
    [][\A c \in HealthCallers :
          hc[c].pc = "idle" /\ hc'[c].pc = "probe" =>
              probe_age[hc'[c].name] >= HealthInterval]_vars

-----------------------------------------------------------------------------
(* Properties of the termination reason.                                   *)

\* The order of precedence the specification gives to the reasons.
Precedence ==
    <<"user_cancelled", "error", "timeout", "early_stop", "quality_threshold", "complete">>

\* The conditions that hold when the checks after a chunk are made.
Triggered(st) ==
    (IF st.timed_out THEN {"timeout"} ELSE {})
    \cup (IF st.stop_sequences # {}
             /\ \E seq \in st.stop_sequences : Contains(seq, st.accumulated_text)
          THEN {"early_stop"} ELSE {})
    \cup (IF st.quality_check /\ should_terminate_early(st.accumulated_text, st.chunk_index)
          THEN {"quality_threshold"} ELSE {})

\* The first reason of the order of precedence that is in the set.
Foremost(reasons) ==
    Precedence[CHOOSE i \in 1..Len(Precedence) :
                  /\ Precedence[i] \in reasons
                  /\ \A j \in 1..(i - 1) : Precedence[j] \notin reasons]

\* C32: when the checks after a chunk end the stream, the recorded reason is
\* the one of highest precedence among the conditions that hold in that step.
C32_ReasonPrecedence ==
    [][(/\ stream.pc = "yielded"
        /\ stream'.pc = "done"
        /\ ~stream'.closed
        /\ Triggered(stream) # {})
       => stream'.result.termination_reason = Foremost(Triggered(stream))]_vars

-----------------------------------------------------------------------------
(* Properties of the repetition check.                                     *)

\* Every chunk of the driver is the same newline-terminated line.
RepeatedLine(driver) ==
    /\ driver # <<>>
    /\ \A i \in 1..Len(driver) : driver[i] = driver[1]
    /\ driver[1][Len(driver[1])] = "\n"

\* The quality check runs on at least four lines of text before the driver
\* is exhausted.
RepetitionChecked(driver) ==
    \E m \in 3..Len(driver) :
        m % CheckInterval = 0 /\ m * Len(driver[1]) >= MinLength

\* C33: with the quality check enabled, a stream of repeated newline-terminated
\* lines long enough for the check does not run to the end of the provider's
\* chunks: it does not end with reason complete.
C33_RepetitionStops ==
    (/\ stream.result.made
     /\ ~stream.closed
     /\ stream.quality_check
     /\ RepeatedLine(stream.driver)
     /\ RepetitionChecked(stream.driver))
    => stream.result.termination_reason # "complete"

-----------------------------------------------------------------------------
(* Properties of get_history.                                              *)

\* The messages of the history that pass the filters of the query, oldest first.
Matching(q) ==
    SelectSeq(q.history,
              LAMBDA m : /\ q.message_type \in {"None", m.type}
                         /\ q.sender \in {"None", m.sender})

\* C34: get_history returns at most count messages: the count most recent
\* messages that match the filters, newest first, for every count >= 0.
C34_HistoryQuery ==
    hq.made =>
        /\ Len(hq.returned) <= hq.count
        /\ Len(hq.returned) = IF hq.count < Len(Matching(hq)) THEN hq.count
                              ELSE Len(Matching(hq))
        /\ \A i \in 1..Len(hq.returned) :
              hq.returned[i] = Matching(hq)[Len(Matching(hq)) + 1 - i]

-----------------------------------------------------------------------------
(* Properties of the variant metrics.                                      *)

\* The rate <<p, q>> equals n / d.
RateIs(rate, n, d) == rate[1] * d = n * rate[2]

\* C35: the metrics read back after any sequence of record calls have, when
\* impressions > 0, conversion_rate = successes / impressions, and the averages
\* of latency and cost over the impressions.
C35_DerivedMetrics ==
    (/\ mread.made
     /\ mread.value.impressions > 0
     /\ \A c \in MetricCallers : mrec[c].pc = "idle")
    => /\ RateIs(mread.value.conversion_rate, mread.value.successes, mread.value.impressions)
       /\ RateIs(mread.value.avg_latency, mread.value.total_latency, mread.value.impressions)
       /\ RateIs(mread.value.avg_cost, mread.value.total_cost, mread.value.impressions)

-----------------------------------------------------------------------------
(* Properties of the per-user cost key.                                    *)

\* C36: a successful track_cost(u, t, c, p) raises the spend that the per-user
\* spend query reports for u in period p by c.
C36_SpendReflectsTrack ==
    [][\A c \in Trackers :
          (~tcall[c].made /\ tcall'[c].made /\ tcall'[c].ok)
          => get_user_spend(kv', tcall'[c].user, tcall'[c].period)
               = get_user_spend(kv, tcall'[c].user, tcall'[c].period) + tcall'[c].cost]_vars

\* C37: a call whose flush failed with a database error puts the batch
\* back and returns, and a log_invocation call that waits for the lock
\* returns too.
C37_FlushFailureReturns ==
    \A c \in LogCallers :
        /\ (lg[c].pc = "requeue") ~> (lg[c].pc = "idle")
        /\ (lg[c].pc = "wait") ~> (lg[c].pc = "idle")

\* C38: the budget is either absent or whole: no state has a limit key
\* without the spend key's and the limit key's TTL.
C38_BudgetWholeOrAbsent ==
    \/ limit = 0 /\ ~spend_ttl /\ ~limit_ttl
    \/ limit > 0 /\ spend_ttl /\ limit_ttl

\* C38, for the calls that have returned only.
C38_ReturnedBudgetWhole ==
    cpc = "idle" => C38_BudgetWholeOrAbsent

\* C39: the recorded status of an agent is busy only while the agent has
\* an assignment for which no TaskResult or Error was published.
C39_BusyOnlyWhileUnfinished ==
    \A a \in AgentIds : get_agent_status(a) = "busy" => unfinished[a] > 0

\* The versions whose metadata has status active.
ActiveVersions == {v \in Versions : statuses[v] = "active"}

\* C40: after any sequence of create_version, set_active_version,
\* rollback and deprecate_version calls at most one version of the
\* workflow has status active, and it is the one the active key names.
C40_OneActiveVersion ==
    /\ Cardinality(ActiveVersions) <= 1
    /\ \A v \in ActiveVersions : active_key = v

====
